---- MODULE Spec2Model ----
(***************************************************************************)
(* Model of the 7z -> zip conversion subsystem (convert7zToZip and its     *)
(* helpers).  One convert call is followed from its entry to its return;   *)
(* every await of the source is one step.  The external archive tool and   *)
(* the file system are the environment: each of their answers is drawn     *)
(* from a small set at the step that asks for it.                          *)
(*                                                                         *)
(* Strings that the code inspects are modelled by what is inspected:       *)
(*   - a path is a sequence of one-character strings;                      *)
(*   - the text a tool prints is the set of the fragments it contains, and *)
(*     a regular expression of the source is the set of the fragments it   *)
(*     matches.                                                            *)
(***************************************************************************)
EXTENDS Integers, Sequences, FiniteSets, TLC

\* ------------------------------------------------------------ bounds
\* number of candidate names tried per directory and on the search path
MaxNames == 2
\* number of convert calls in flight at once
MaxInvocations == 2
\* number of updates a manager can have pending
MaxUpdates == 3

\* ------------------------------------------------------------ paths
Absent == <<"<undefined>">>

LowerChar(c) ==
  CASE c = "Z" -> "z"
    [] c = "I" -> "i"
    [] c = "P" -> "p"
    [] c = "A" -> "a"
    [] c = "O" -> "o"
    [] c = "T" -> "t"
    [] OTHER -> c

toLowerCase(s) == [i \in 1..Len(s) |-> LowerChar(s[i])]

\* String.prototype.trim() leaves nothing
TrimIsEmpty(s) == \A i \in 1..Len(s) : s[i] = " "

\* index of the last c in s, 0 when there is none
LastIndexOf(s, c) ==
  LET I == {i \in 1..Len(s) : s[i] = c}
  IN IF I = {} THEN 0 ELSE CHOOSE i \in I : \A j \in I : j <= i

\* p without its trailing separators (a lone "/" is kept)
RECURSIVE StripTrailingSep(_)
StripTrailingSep(p) ==
  IF Len(p) > 1 /\ p[Len(p)] = "/" THEN StripTrailingSep(SubSeq(p, 1, Len(p) - 1))
  ELSE p

\* last path component (path.basename with one argument)
LastComponent(p) ==
  LET q == StripTrailingSep(p)
      k == LastIndexOf(q, "/")
  IN IF q = <<"/">> THEN <<>> ELSE SubSeq(q, k + 1, Len(q))

EndsWith(s, suf) ==
  /\ Len(suf) <= Len(s)
  /\ SubSeq(s, Len(s) - Len(suf) + 1, Len(s)) = suf

\* path.extname: from the last dot of the last component, "" when there is no
\* dot or the only dot is its first character
extname(p) ==
  LET b == LastComponent(p)
      k == LastIndexOf(b, ".")
  IN IF k <= 1 \/ b = <<".", ".">> THEN <<>> ELSE SubSeq(b, k, Len(b))

\* path.basename(p, ext): the suffix is removed only on an exact, case
\* sensitive match
basename(p, ext) ==
  LET b == LastComponent(p)
  IN IF Len(ext) > 0 /\ EndsWith(b, ext)
       THEN SubSeq(b, 1, Len(b) - Len(ext))
       ELSE b

\* path.dirname
dirname(p) ==
  LET q == StripTrailingSep(p)
      k == LastIndexOf(q, "/")
  IN IF k = 0 THEN <<".">>
     ELSE IF k = 1 THEN <<"/">>
     ELSE SubSeq(q, 1, k - 1)

\* path.join(dir, name) for a dir produced by dirname and a plain name
join(dir, name) ==
  IF dir = <<".">> THEN name
  ELSE IF dir = <<"/">> THEN <<"/">> \o name
  ELSE dir \o <<"/">> \o name

isAbsolute(p) == Len(p) > 0 /\ p[1] = "/"

DotZip == <<".", "z", "i", "p">>
Dot7z == <<".", "7", "z">>

\* ------------------------------------------------------------ inputs
\* the values of filePath: not a string, the empty string, relative and absolute
\* names with the extension in both cases, and another extension
FilePaths ==
  { Absent,
    <<>>,
    <<"a", ".", "7", "Z">>,
    <<"/", "t", "/", "a", ".", "7", "z">>,
    <<"a", ".", "z", "i", "p">> }

\* the values of outputPath: undefined, the empty string, with and without the
\* extension, relative and absolute
OutputPaths ==
  { Absent,
    <<>>,
    <<"o", ".", "Z", "I", "P">>,
    <<"o">>,
    <<"/", "t", "/", "o", ".", "z", "i", "p">> }

\* the input the resolver is followed with in every environment
SweepFilePath == <<"a", ".", "7", "Z">>

\* ------------------------------------------------------------ tool output
\* exit status of a child process: success, a fatal error, or Undef for the
\* undefined exitCode of a process that could not be started
Undef == 0 - 1
ExitCodes == {0, 2, Undef}

\* fragments of a -version answer
VersionFrags == {"7-Zip", "p7zip Version 16.02", "Usage"}
\* /(7-?Zip|p7zip)/i
RxProduct == {"7-Zip", "p7zip Version 16.02"}
\* /p7zip Version 16\.02/i
RxP7zip16 == {"p7zip Version 16.02"}

Matches(rx, out) == (rx \cap out) # {}

isP7zip16(out) == Matches(RxP7zip16, out)

\* the answers execa can give to a -version query: the process could not be
\* started, it printed a text that does not name the product, it printed the
\* banner of 7-Zip, or it printed the banner of p7zip 16.02
NoLaunch == [launched |-> FALSE, out |-> {}]
NoSig == [launched |-> TRUE, out |-> {"Usage"}]
SevenZip == [launched |-> TRUE, out |-> {"7-Zip"}]
P7zip == [launched |-> TRUE, out |-> {"7-Zip", "p7zip Version 16.02"}]
TryOutcomes == {NoLaunch, NoSig, SevenZip, P7zip}

\* ensureExecutable that passes the error of chmod on
ensureExecutableRejects(chmodOk) == IF chmodOk THEN "resolved" ELSE "rejected"

\* ensureExecutable: how its promise ends when chmod succeeds or fails; the
\* catch block is empty
ensureExecutable(chmodOk) == "resolved"

\* tryCmd: { ok, out }
TryOk(o) == o.launched /\ Matches(RxProduct, o.out)

\* tryCmd that takes every answer of a started process for the product's
tryCmdAnyAnswer(o) == [ok |-> o.launched, out |-> o.out]

tryCmd(o) == [ok |-> TryOk(o), out |-> o.out]

\* ------------------------------------------------------------ candidates
\* process.env.CONVERT_7Z_BIN_DIR of a process that does not set it
Unset == ""

\* the directories CONVERT_7Z_BIN_DIR can name
BinDirs == {"A", "B"}

\* path.join(process.cwd(), 'bin') and path.join(process.cwd(), 'vendors')
CwdBin == "cwd/bin"
CwdVendors == "cwd/vendors"

\* every directory a search can go through
Dirs == BinDirs \cup {CwdBin, CwdVendors}

\* Boolean(x) of a string
Boolean(x) == x # Unset

\* CANDIDATE_DIRS as built when the module is loaded with CONVERT_7Z_BIN_DIR =
\* binDir: the directory it names, when it names one, then bin and vendors
CANDIDATE_DIRS(binDir) == SelectSeq(<<binDir, CwdBin, CwdVendors>>, Boolean)

CANDIDATE_NAMES == 1..MaxNames

\* a candidate: path.join(dir, name) for a directory, the name alone on the
\* search path
OverrideBin == [tier |-> "override", d |-> Unset, n |-> 0]
DirBin(dir, n) == [tier |-> "dir", d |-> dir, n |-> n]
PathBin(n) == [tier |-> "path", d |-> Unset, n |-> n]
Builtin7za == [tier |-> "builtin", d |-> Unset, n |-> 0]
NoBin == [tier |-> "none", d |-> Unset, n |-> 0]

DirBins == {DirBin(dir, j) : dir \in Dirs, j \in CANDIDATE_NAMES}
PathBins == {PathBin(j) : j \in CANDIDATE_NAMES}
Candidates == {OverrideBin} \cup DirBins \cup PathBins \cup {Builtin7za}

\* an environment: CONVERT_7Z_BIN (set or not, and what the binary it names
\* answers to -version), CONVERT_7Z_BIN_DIR (a directory, or not set), the
\* candidate files of every directory (present or not, and their answer), the
\* answers of the names on the search path, and the answer of the embedded
\* binary
OverrideStates ==
  { [set |-> FALSE, answer |-> NoLaunch],
    [set |-> TRUE, answer |-> NoLaunch],
    [set |-> TRUE, answer |-> P7zip] }
NoCandidateFile == [exists |-> FALSE, answer |-> NoLaunch]
DirStates ==
  { NoCandidateFile,
    [exists |-> TRUE, answer |-> NoSig],
    [exists |-> TRUE, answer |-> SevenZip] }
PathStates == {NoLaunch, SevenZip}

\* no directory holds a candidate file
NoFiles == [c \in DirBins |-> NoCandidateFile]

\* every directory of ds holds at most one candidate file
OneFileEach(ds) ==
  LET Slots == {[n |-> 0, st |-> NoCandidateFile]} \cup
               [n : CANDIDATE_NAMES, st : DirStates \ {NoCandidateFile}]
  IN { [c \in DirBins |-> IF c.d \in ds /\ pick[c.d].n = c.n THEN pick[c.d].st
                                                              ELSE NoCandidateFile] :
         pick \in [ds -> Slots] }

\* one directory of ds holds any candidate files, the others none
OneDirAny(ds) ==
  { [c \in DirBins |-> IF c.d = dir THEN content[c.n] ELSE NoCandidateFile] :
      dir \in ds, content \in [CANDIDATE_NAMES -> DirStates] }

\* the directories of a list
DirsOf(list) == {list[i] : i \in 1..Len(list)}

\* the environments the resolver is followed in, with and without
\* CONVERT_7Z_BIN_DIR: the files are in the directories the module lists
Envs ==
  UNION { [ override : OverrideStates,
            binDir   : {b},
            dirs     : OneFileEach(DirsOf(CANDIDATE_DIRS(b)))
                         \cup OneDirAny(DirsOf(CANDIDATE_DIRS(b))),
            path     : [PathBins -> PathStates],
            builtin  : TryOutcomes ] : b \in {Unset, "A"} }

\* the environments every input is followed in: a 7-Zip on the search path;
\* nothing but an embedded p7zip 16.02; nothing that can be started at all
EnvNone ==
  [ override |-> [set |-> FALSE, answer |-> NoLaunch],
    binDir   |-> "A",
    dirs     |-> NoFiles,
    path     |-> [c \in PathBins |-> NoLaunch],
    builtin  |-> NoLaunch ]
EnvPath == [EnvNone EXCEPT !.path[PathBin(1)] = SevenZip]
EnvBuiltin == [EnvNone EXCEPT !.builtin = P7zip]
SampleEnvs == {EnvPath, EnvBuiltin, EnvNone}

\* the environments two successive calls are followed from: an embedded
\* p7zip 16.02, nothing on the search path but, possibly, its first name, and
\* at most one candidate file in each of the directories CONVERT_7Z_BIN_DIR
\* can name, or in each of bin and vendors
TwoCallEnvs ==
  [ override : OverrideStates,
    binDir   : {Unset, "A"},
    dirs     : OneFileEach(BinDirs) \cup OneFileEach({CwdBin, CwdVendors}),
    path     : { [c \in PathBins |-> IF c.n = 1 THEN x ELSE NoLaunch] : x \in PathStates },
    builtin  : {P7zip} ]

\* what the candidate c answers in the environment e
AnswerIn(e, c) ==
  CASE c.tier = "override" -> e.override.answer
    [] c.tier = "dir"      -> e.dirs[c].answer
    [] c.tier = "path"     -> e.path[c]
    [] c.tier = "builtin"  -> e.builtin
    [] OTHER               -> NoLaunch

\* ------------------------------------------------------------ listing output
\* fragments of the text printed by the listing command (l -slt)
ListFrags ==
  { "Type = 7z", "Type = zip", "Enter password", "Wrong password",
    "Encrypted = +", "Headers Error", "Data Error",
    "Can not open encrypted archive", "Can not open file as archive",
    "Errors: 1", "Errors: 0", "Warnings: 1", "Warnings: 0" }

\* /Wrong password|Enter password|Encrypted\s*=\s*\+/i
RxPasswordPrompt == {"Wrong password", "Enter password", "Encrypted = +"}
\* /Headers Error/i
RxHeadersError == {"Headers Error"}
\* /password|encrypt/i
RxPasswordOrEncrypt ==
  {"Wrong password", "Enter password", "Encrypted = +", "Can not open encrypted archive"}
\* /Data Error/i
RxDataError == {"Data Error"}
\* /password/i
RxPassword == {"Wrong password", "Enter password"}
\* /Can not open encrypted archive/i
RxEncryptedArchive == {"Can not open encrypted archive"}
\* /Can not open file as archive/i
RxNotArchive == {"Can not open file as archive"}
\* /Errors:\s*\d+/i
RxErrors == {"Errors: 1", "Errors: 0"}
\* /Warnings:\s*\d+/i
RxWarnings == {"Warnings: 1", "Warnings: 0"}
\* /Type\s*=\s*7z/i
RxType7z == {"Type = 7z"}

detectPassword(all) ==
  \/ Matches(RxPasswordPrompt, all)
  \/ (Matches(RxHeadersError, all) /\ Matches(RxPasswordOrEncrypt, all))
  \/ (Matches(RxDataError, all) /\ Matches(RxPassword, all))
  \/ Matches(RxEncryptedArchive, all)

\* probe that looks for the password prompt only in a failed listing
probeEncryptedOnFailure(exitCode, all) ==
  [ exitCode     |-> exitCode,
    isType7z     |-> Matches(RxType7z, all),
    looksInvalid |-> \/ Matches(RxNotArchive, all)
                     \/ ((Matches(RxErrors, all) \/ Matches(RxWarnings, all)) /\ exitCode # 0),
    isEncrypted  |-> detectPassword(all) /\ exitCode # 0 ]

\* probe: the ProbeResult computed from the exit code and the text
probe(exitCode, all) ==
  [ exitCode     |-> exitCode,
    isType7z     |-> Matches(RxType7z, all),
    looksInvalid |-> \/ Matches(RxNotArchive, all)
                     \/ ((Matches(RxErrors, all) \/ Matches(RxWarnings, all)) /\ exitCode # 0),
    isEncrypted  |-> detectPassword(all) ]

\* the fragments a probe listing is drawn from
ProbeFrags ==
  { "Type = 7z", "Enter password", "Headers Error",
    "Can not open file as archive", "Errors: 1", "Errors: 0" }

NoProbe == [exitCode |-> Undef, isType7z |-> FALSE, looksInvalid |-> FALSE, isEncrypted |-> FALSE]

\* ProbeVerdict without the check of the exit code
ProbeVerdictNoExitCode(p) ==
  IF p.isEncrypted THEN "Encrypted"
  ELSE IF ~p.isType7z \/ p.looksInvalid THEN "Invalid"
  ELSE "ok"

\* ProbeVerdict with the two checks in the other order
ProbeVerdictInvalidFirst(p) ==
  IF ~p.isType7z \/ p.looksInvalid \/ p.exitCode # 0 THEN "Invalid"
  ELSE IF p.isEncrypted THEN "Encrypted"
  ELSE "ok"

\* the two checks convert makes on the probe result, in their order
ProbeVerdict(p) ==
  IF p.isEncrypted THEN "Encrypted"
  ELSE IF ~p.isType7z \/ p.looksInvalid \/ p.exitCode # 0 THEN "Invalid"
  ELSE "ok"

\* ------------------------------------------------------------ validation
\* ValidationError without the check of the extension
ValidationErrorNoExt(fp, kind) ==
  IF fp = Absent \/ TrimIsEmpty(fp) THEN "EmptyPath"
  ELSE IF kind # "file" THEN "NotFound"
  ELSE "none"

ValidationError(fp, kind) ==
  IF fp = Absent \/ TrimIsEmpty(fp) THEN "EmptyPath"
  ELSE IF kind # "file" THEN "NotFound"
  ELSE IF toLowerCase(extname(fp)) # Dot7z THEN "BadExt"
  ELSE "none"

\* ------------------------------------------------------------ output path
\* outputPath is falsy: undefined or the empty string
Falsy(p) == p = Absent \/ p = <<>>

ComputeOutZip(fp, op) ==
  LET ext == toLowerCase(extname(fp))
  IN IF Falsy(op)
       THEN join(dirname(fp), basename(fp, ext) \o DotZip)
     ELSE IF toLowerCase(extname(op)) # DotZip
       THEN op \o DotZip
     ELSE op

\* ------------------------------------------------------------ trees
\* what an archive can hold: a node is the sequence of its path components
DirNodes == { <<"a">>, <<"c">> }
FileNodes == { <<"a", "b.txt">>, <<"f">> }
Nodes == DirNodes \cup FileNodes

\* deeper nodes, for the trees the lister is followed on alone
DeepDirNodes == { <<"a", "d">> }
DeepFileNodes == { <<"a", "d", "e.txt">>, <<"c", "g">> }

\* the order in which readdir returns the names of a directory
NameOrder == <<"a", "b.txt", "c", "d", "e.txt", "f", "g">>

Parent(nd) == SubSeq(nd, 1, Len(nd) - 1)

\* the directory trees: every node's parent directory is in the tree
Trees == { t \in SUBSET Nodes : \A nd \in t : Len(nd) > 1 => Parent(nd) \in t }

DeepTrees ==
  { t \in SUBSET (Nodes \cup DeepDirNodes \cup DeepFileNodes) :
      \A nd \in t : Len(nd) > 1 => Parent(nd) \in t }

\* an entry handed to the packer: toPosix(rel), with a trailing "/" or not
Entry(rel, slash) == [rel |-> rel, slash |-> slash]

Placeholder == <<".zip_empty_placeholder">>

\* lstat(abs).isDirectory()
isDirectory(rel) == rel = <<>> \/ rel \in DirNodes \cup DeepDirNodes

\* fsp.readdir(abs): the paths path.join(rel, n) for the names n of the
\* directory rel, in the order readdir returns them
RECURSIVE readdirFrom(_, _, _)
readdirFrom(tree, rel, i) ==
  IF i > Len(NameOrder) THEN <<>>
  ELSE (IF Append(rel, NameOrder[i]) \in tree THEN <<Append(rel, NameOrder[i])>> ELSE <<>>)
         \o readdirFrom(tree, rel, i + 1)

readdir(tree, rel) == readdirFrom(tree, rel, 1)

\* listAllRelativeEntries between two awaits: the operation that is awaited
\* (fsp.lstat or fsp.readdir), the path it is made on, the paths whose walk
\* has not begun, in the order the loops come to them, and the array entries
NoWalk == [op |-> "none", rel |-> <<>>, todo |-> <<>>, acc |-> <<>>]

\* await walk(''): fsp.lstat of the root is awaited
StartWalk == [op |-> "lstat", rel |-> <<>>, todo |-> <<>>, acc |-> <<>>]

\* a walk has returned: the loop that called it calls walk for its next name,
\* or returns too; when none is left the outermost walk has returned
WalkOn(todo, acc) ==
  IF todo = <<>>
    THEN [op |-> "none", rel |-> <<>>, todo |-> <<>>, acc |-> acc]
    ELSE [op |-> "lstat", rel |-> Head(todo), todo |-> Tail(todo), acc |-> acc]

\* walk that pushes nothing for a directory
AfterLstatFilesOnly(w) ==
  IF isDirectory(w.rel)
    THEN [w EXCEPT !.op = "readdir"]
    ELSE WalkOn(w.todo, Append(w.acc, Entry(w.rel, FALSE)))

\* walk(rel) once fsp.lstat(abs) has resolved: a directory pushes itself
\* (unless it is the root) and awaits readdir; anything else pushes itself
AfterLstat(w) ==
  IF isDirectory(w.rel)
    THEN [w EXCEPT !.op = "readdir",
                   !.acc = IF w.rel # <<>> THEN Append(@, Entry(w.rel, TRUE)) ELSE @]
    ELSE WalkOn(w.todo, Append(w.acc, Entry(w.rel, FALSE)))

\* walk(rel) once fsp.readdir(abs) has resolved:
\* for (const n of names) await walk(path.join(rel, n))
AfterReaddir(w, tree) == WalkOn(readdir(tree, w.rel) \o w.todo, w.acc)

\* what listAllRelativeEntries returns when none of its awaits rejects
RECURSIVE walkFrom(_, _)
walkFrom(w, tree) ==
  IF w.op = "none" THEN w.acc
  ELSE walkFrom(IF w.op = "lstat" THEN AfterLstat(w) ELSE AfterReaddir(w, tree), tree)

listAllRelativeEntries(tree) == walkFrom(StartWalk, tree)

\* ------------------------------------------------------------ archives
\* an archive member: its path and whether it is a directory entry
Member(rel) == [rel |-> rel, dir |-> rel \in DirNodes]

IsPrefix(a, b) == Len(a) <= Len(b) /\ SubSeq(b, 1, Len(a)) = a

\* what the add command stores for its file arguments, read in its working
\* directory: each named object, and everything below a named directory
AddedMembers(args, tree) ==
  { Member(nd) : nd \in { x \in tree : \E i \in 1..Len(args) :
        /\ IsPrefix(args[i].rel, x)
        /\ (args[i].rel = x \/ isDirectory(args[i].rel)) } }

\* the members of an archive that holds exactly the tree
TreeMembers(tree) == { Member(nd) : nd \in tree }

\* what can be found at a path: nothing, a directory, a regular file that is
\* no archive, or a zip archive with its members
NoFile == [kind |-> "none", members |-> {}]
PlainFile == [kind |-> "file", members |-> {}]
Directory == [kind |-> "dir", members |-> {}]
Zip(ms) == [kind |-> "zip", members |-> ms]

\* an archive left at the output path by an earlier conversion
OldZip == Zip({[rel |-> <<"old.txt">>, dir |-> FALSE]})

PreOutputs == {NoFile, PlainFile, Directory, OldZip}

\* stat(p).isFile()
isFile(f) == f.kind \in {"file", "zip"}

\* the file a relative or absolute path names for a process whose current
\* directory is cwd ("caller": the directory convert was called in, "work":
\* the private working directory)
Resolve(p, cwd) == IF isAbsolute(p) THEN "caller" ELSE cwd

\* ------------------------------------------------------------ packing
\* fragments of the text printed by a failed add command
PackFrags == {"E_INVALIDARG", "Unsupported switch", "Incorrect command line", "-mmt"}
\* /E_INVALIDARG|Unsupported switch|Incorrect command line/i
RxBadArgs == {"E_INVALIDARG", "Unsupported switch", "Incorrect command line"}
\* /Unsupported switch/i
RxUnsupported == {"Unsupported switch"}
\* /-mmt/i
RxMmt == {"-mmt"}

\* the timestamp switches
timeArgs == <<"-mtm=on", "-mtc=on", "-mta=on">>

\* PackFlags whose second set has lost the multi-thread switch too
PackFlagsSecondWithoutMmt(tier) ==
  CASE tier = 1 -> <<"a", "-tzip", "-mx=7", "-mmt=N">> \o timeArgs
    [] OTHER    -> <<"a", "-tzip", "-mx=9">>

\* the switches of the three argument sets of addZipWith7z
PackFlags(tier) ==
  CASE tier = 1 -> <<"a", "-tzip", "-mx=7", "-mmt=N">> \o timeArgs
    [] tier = 2 -> <<"a", "-tzip", "-mx=7", "-mmt=N">>
    [] OTHER    -> <<"a", "-tzip", "-mx=9">>

NoRun == [exitCode |-> Undef, all |-> {}]

\* RetryWithoutTime that does not look at the exit code
RetryWithoutTimeAnyExit(r) == Matches(RxBadArgs, r.all)

\* the condition of the retry without the timestamp switches
RetryWithoutTime(r) == r.exitCode # 0 /\ Matches(RxBadArgs, r.all)
\* RetryWithoutMmt for any unsupported switch
RetryWithoutMmtAnySwitch(r) == r.exitCode # 0 /\ Matches(RxUnsupported, r.all)

\* the condition of the retry without the multi-thread switch
RetryWithoutMmt(r) == r.exitCode # 0 /\ Matches(RxUnsupported, r.all) /\ Matches(RxMmt, r.all)

\* ------------------------------------------------------------ state
VARIABLES
  pc,           \* where the convert call is
  filePath,     \* argument filePath
  outputPath,   \* argument outputPath
  inputKind,    \* what stat(filePath) finds: "file", "dir" or "none"
  env,          \* the environment of the call
  loaded,       \* CANDIDATE_DIRS as computed when the module was loaded
  call,         \* the number of the convert call: 1 or 2
  first,        \* what the resolver returned to the first call, and whether
                \* the environment was changed after it
  listed,       \* the answer of the listing command, where probe is followed
                \* for one answer fixed in advance
  d, n,         \* loop positions of resolveFromDirs / resolveFromPath
  tried,        \* the candidates given a -version query, in order
  sevenZipBin,  \* the binary pick7zBinary returned
  version,      \* its version output
  chmod,        \* how the chmod of the candidate queried last ended: "ok",
                \* "failed", or "none" where no chmod is made
  launches,     \* number of child processes started (execa calls)
  issued,       \* the commands started through run(), in order
  pr,           \* the probe result
  outZip,       \* the computed output path
  tmpRoot,      \* "absent", "exists" or "removed"
  workTree,     \* the content of the working directory
  archive,      \* the content of the input archive, known once extracted
  walking,      \* listAllRelativeEntries while it runs: what it awaits, what
                \* is left to walk, and the entries pushed
  entries,      \* the result of listAllRelativeEntries
  packEntries,  \* the entries handed to addZipWith7z
  extractR,     \* r of extractWith7z: its exit code, and whether the E_FAIL
                \* test was made and matched
  packR,        \* r of addZipWith7z: the result of its last add command
  packLog,      \* the add commands issued: switches, archive path, entries,
                \* and the exit code each ended with
  fs,           \* what is at the output path, seen from "caller" and "work"
  verifyR,      \* the exit code of the verification listing, and what
                \* verifyZip returned
  result,       \* "none" while running, "ok", or the error raised
  exitStatus,   \* the exit code of the process run as a standalone tool
  stderr,       \* what that process wrote with console.error, in order
  inv,          \* concurrent convert calls: where each is, its tmpRoot, the
                \* writers of what it listed and packed, whose root it removed,
                \* whether it listed no entry, and the add commands it ran
  tmpFs,        \* the directories under os.tmpdir(): whether each exists and
                \* which calls extracted into it
  rim,          \* a ResourceIndexManager: its base path, whether it is
                \* loaded, this.index, this.updates
  cos,          \* the object storage: under every base path, index.json and
                \* the artifacts uploaded
  task,         \* a download task: its type, the await it is at, its loop
                \* positions, its locals and its lists
  lastCall      \* the last call made on the manager and how it ended

vars == << pc, filePath, outputPath, inputKind, env, loaded, call, first, listed, d, n, tried, sevenZipBin,
           version, chmod, launches, issued, pr, outZip, tmpRoot, workTree, archive,
           walking, entries, packEntries, extractR, packR, packLog, fs, verifyR, result,
           exitStatus, stderr, inv, tmpFs, rim, cos, task, lastCall >>

resolverVars == << d, n, tried, sevenZipBin, version, chmod >>
argVars == << filePath, outputPath, inputKind >>
\* the state outside a convert call
indexVars == << rim, cos, task, lastCall >>
outsideVars == << exitStatus, stderr, inv, tmpFs, indexVars >>
inputVars == << argVars, env, loaded, call, first, listed, outsideVars >>
pipelineVars == << pr, outZip, tmpRoot, workTree, archive, walking, entries, packEntries,
                   extractR, packR, packLog, fs, verifyR >>
\* the state of one convert call
convertVars == << pc, argVars, env, loaded, call, first, listed, resolverVars, launches,
                 issued, pipelineVars, result >>

NoVerify == [exitCode |-> Undef, ret |-> [files |-> 0, folders |-> 0]]

NoExtract == [exitCode |-> Undef, efail |-> FALSE]

NoPick == [bin |-> NoBin, version |-> {}, changed |-> FALSE]

\* the module-level list, built when the module is loaded in e
LoadModule(e) == CANDIDATE_DIRS(e.binDir)

\* every input and every state of the output path in the sample environments,
\* and one input in every environment
InitInputs ==
  \/ /\ env \in SampleEnvs
     /\ filePath \in FilePaths
     /\ outputPath \in OutputPaths
     /\ inputKind \in {"file", "dir", "none"}
     /\ (filePath \in {Absent, <<>>} => inputKind = "none")
     /\ \E pre \in PreOutputs : fs = [caller |-> pre, work |-> NoFile]
  \/ /\ env \in Envs
     /\ filePath = SweepFilePath
     /\ outputPath = Absent
     /\ inputKind = "none"
     /\ fs = [caller |-> NoFile, work |-> NoFile]

\* convert7zToZip is required as a module: no standalone process
NoProcess ==
  /\ exitStatus = Undef
  /\ stderr = <<>>

\* the calls that may run at once, and the names mkdtemp can give
Invocations == 1..MaxInvocations
TmpNames == 1..MaxInvocations
NoRoot == 0

NotStarted ==
  [pc |-> "start", tmpRoot |-> NoRoot, saw |-> {}, removed |-> {}, empty |-> FALSE, adds |-> 0]

\* no concurrent call has started, os.tmpdir() holds no conv-7z-zip- directory
NoInvocations ==
  /\ inv = [i \in Invocations |-> NotStarted]
  /\ tmpFs = [x \in TmpNames |-> [exists |-> FALSE, writers |-> {}]]

\* ------------------------------------------------------------ resource index
\* the keys of the indexes of the python and c_cpp tasks
Platforms == {"win32-arm64", "win32-x64"}
\* python.js: the platforms in the order of the loop
TARGET_PLATFORMS == <<"win32-arm64", "win32-x64">>
\* runCppTask: the platforms of its two blocks, in their order
CppPlatforms == <<"win32-x64", "win32-arm64">>
\* vscode.js: the platforms in the order of the loop
VSCODE_TARGET_PLATFORMS == <<"win32-arm64", "win32-x64", "darwin-arm64", "darwin-x64">>
\* getLatestVSCodeVersion: Object.entries(apiEndpoints), in their order
apiEndpoints == <<"win32-x64", "win32-arm64", "darwin-x64", "darwin-arm64">>
\* vsix.js: the extensions, two of the thirteen
vsixList == <<"vsix/editorconfig.editorconfig", "vsix/ms-vscode.cpptools">>
\* getLatestVersionInfo: the platforms it can return for COMM_PLATFORMS: none,
\* 'universal' for a version without targetPlatform, or target platforms
VsixAnswers == { <<>>, <<"universal">>, <<"win32-arm64", "win32-x64">> }

\* every key an index can have
Keys == Platforms \cup {"darwin-arm64", "darwin-x64", "universal"}

\* a ResourceIndexItem is taken by its version and md5; path follows from the
\* key and the version, updatedAt is compared by nothing
Versions == {"v1", "v2"}
Md5s == {"m1", "m2"}
Items == [version : Versions, md5 : Md5s]
\* this.index[key] of a key that is not in the index
NoItem == [version |-> "none", md5 |-> "none"]
EmptyIndex == [k \in Keys |-> NoItem]
\* the indexes with entries for the platforms of python and c_cpp
Indexes ==
  { [k \in Keys |-> IF k \in Platforms THEN ix[k] ELSE NoItem] :
      ix \in [Platforms -> Items \cup {NoItem}] }

\* the base paths of the managers: one for each of c_cpp, python and vscode,
\* and one for every extension
BasePaths == {"c_cpp", "python", "vscode"} \cup {vsixList[x] : x \in 1..Len(vsixList)}

\* a manager as constructed: this.index undefined, this.updates = 0
NewManager(basePath) ==
  [basePath |-> basePath, loaded |-> FALSE, index |-> EmptyIndex, updates |-> 0]

\* no manager has been made
NoManager == NewManager("none")

\* what the storage holds under a base path: nothing, no index.json and no
\* artifact
EmptyStore == [exists |-> FALSE, index |-> EmptyIndex, artifacts |-> {}]

\* a storage that holds nothing
NoObjects == [b \in BasePaths |-> EmptyStore]

\* the object an artifact upload leaves in the storage
Artifact(key, item) == [platform |-> key, item |-> item]

NoTask ==
  [ type |-> "none", pc |-> "idle", e |-> 1, i |-> 1, version |-> "none", urls |-> {},
    platforms |-> <<>>, successPlatforms |-> <<>>, failedPlatforms |-> <<>>,
    successIds |-> <<>>, failedIds |-> <<>>, updates |-> 0, uploadFailed |-> {},
    before |-> EmptyIndex ]

\* a call on the manager: its name, whether it threw, what it returned, what
\* became of its upload ("none" when it made none), this.updates before it,
\* and the number of entries replaced since the last save that uploaded,
\* before and after it
CallRecord(name, threw, ret, upload, pending, sinceBefore, since) ==
  [ name |-> name, threw |-> threw, ret |-> ret, upload |-> upload, pending |-> pending,
    sinceBefore |-> sinceBefore, since |-> since ]

NoCall == CallRecord("none", FALSE, 0, "none", 0, 0, 0)

\* no manager is in use
NoIndexWork ==
  /\ rim = NoManager
  /\ cos = NoObjects
  /\ task = NoTask
  /\ lastCall = NoCall

OutsideInit ==
  /\ NoProcess
  /\ NoInvocations
  /\ NoIndexWork

InitConvert ==
  /\ InitInputs
  /\ loaded = LoadModule(env)
  /\ call = 1
  /\ first = NoPick
  /\ listed = NoRun
  /\ d = 1
  /\ n = 1
  /\ tried = <<>>
  /\ sevenZipBin = NoBin
  /\ version = {}
  /\ chmod = "none"
  /\ launches = 0
  /\ issued = <<>>
  /\ pr = NoProbe
  /\ outZip = <<>>
  /\ tmpRoot = "absent"
  /\ workTree = {}
  /\ archive = {}
  /\ walking = NoWalk
  /\ entries = <<>>
  /\ packEntries = <<>>
  /\ extractR = NoExtract
  /\ packR = NoRun
  /\ packLog = <<>>
  /\ verifyR = NoVerify
  /\ result = "none"

InitCall ==
  /\ InitConvert
  /\ OutsideInit

Init ==
  /\ pc = "idle"
  /\ InitCall

\* run: the exit codes a command run with the resolved binary can end with; a
\* binary that cannot be started has none
RunExits == IF AnswerIn(env, sevenZipBin).launched THEN ExitCodes ELSE {Undef}

\* ------------------------------------------------------------ resolver
\* convert7zToZip is entered and calls pick7zBinary
Call ==
  /\ pc = "idle"
  /\ pc' = IF env.override.set THEN "override" ELSE "dirs"
  /\ UNCHANGED << inputVars, resolverVars, launches, issued, pipelineVars, result >>

\* Picked that answers a second call with the binary alone
PickedWithoutVersion(c, t) == [bin |-> c, version |-> IF call = 1 THEN t.out ELSE {}]

\* what a tier returns for an accepted candidate: { bin, version: t.out }
Picked(c, t) == [bin |-> c, version |-> t.out]

\* pick7zBinary, tier 1: await ensureExecutable(p) of the path CONVERT_7Z_BIN
\* names
EnsureOverride ==
  /\ pc = "override"
  /\ \E chmodOk \in BOOLEAN :
       /\ chmod' = IF chmodOk THEN "ok" ELSE "failed"
       /\ IF ensureExecutable(chmodOk) = "rejected"
            THEN /\ result' = "ChmodFailed"
                 /\ pc' = "done"
            ELSE /\ pc' = "overrideTry"
                 /\ UNCHANGED result
  /\ UNCHANGED << inputVars, d, n, tried, sevenZipBin, version, launches, issued,
                  pipelineVars >>

\* pick7zBinary, tier 1: await tryCmd(p), and the return of an accepted
\* candidate
TryOverride ==
  /\ pc = "overrideTry"
  /\ LET o == AnswerIn(env, OverrideBin) IN
       /\ tried' = Append(tried, OverrideBin)
       /\ launches' = launches + 1
       /\ IF tryCmd(o).ok
            THEN /\ sevenZipBin' = Picked(OverrideBin, tryCmd(o)).bin
                 /\ version' = Picked(OverrideBin, tryCmd(o)).version
                 /\ pc' = "validate"
            ELSE /\ pc' = "dirs"
                 /\ UNCHANGED << sevenZipBin, version >>
  /\ UNCHANGED << inputVars, d, n, chmod, issued, pipelineVars, result >>

\* resolveFromDirs: the loops go on to the next name, to the next directory,
\* or end with null, and resolveFromPath is entered
DirsAdvance ==
  IF n < MaxNames
    THEN /\ n' = n + 1
         /\ pc' = "dirs"
         /\ UNCHANGED d
  ELSE IF d < Len(loaded)
    THEN /\ d' = d + 1
         /\ n' = 1
         /\ pc' = "dirs"
  ELSE   /\ pc' = "path"
         /\ d' = 1
         /\ n' = 1

\* resolveFromDirs, at directory d and name n: fs.existsSync(full), and await
\* ensureExecutable(full) of a file that is there
EnsureDirs ==
  /\ pc = "dirs"
  /\ IF env.dirs[DirBin(loaded[d], n)].exists
       THEN \E chmodOk \in BOOLEAN :
              /\ chmod' = IF chmodOk THEN "ok" ELSE "failed"
              /\ IF ensureExecutable(chmodOk) = "rejected"
                   THEN /\ result' = "ChmodFailed"
                        /\ pc' = "done"
                   ELSE /\ pc' = "dirsTry"
                        /\ UNCHANGED result
              /\ UNCHANGED << d, n >>
       ELSE /\ DirsAdvance
            /\ UNCHANGED << chmod, result >>
  /\ UNCHANGED << inputVars, tried, sevenZipBin, version, launches, issued, pipelineVars >>

\* resolveFromDirs, at directory d and name n: await tryCmd(full), and the
\* return of an accepted candidate
TryDirs ==
  /\ pc = "dirsTry"
  /\ LET o == AnswerIn(env, DirBin(loaded[d], n)) IN
       /\ tried' = Append(tried, DirBin(loaded[d], n))
       /\ launches' = launches + 1
       /\ IF tryCmd(o).ok
            THEN /\ sevenZipBin' = Picked(DirBin(loaded[d], n), tryCmd(o)).bin
                 /\ version' = Picked(DirBin(loaded[d], n), tryCmd(o)).version
                 /\ pc' = "validate"
                 /\ UNCHANGED << d, n >>
            ELSE /\ UNCHANGED << sevenZipBin, version >>
                 /\ DirsAdvance
  /\ UNCHANGED << inputVars, chmod, issued, pipelineVars, result >>

\* resolveFromPath: one iteration, at name n
TryPath ==
  /\ pc = "path"
  /\ LET o == AnswerIn(env, PathBin(n)) IN
       /\ tried' = Append(tried, PathBin(n))
       /\ chmod' = "none"
       /\ launches' = launches + 1
       /\ IF tryCmd(o).ok
            THEN /\ sevenZipBin' = Picked(PathBin(n), tryCmd(o)).bin
                 /\ version' = Picked(PathBin(n), tryCmd(o)).version
                 /\ pc' = "validate"
                 /\ UNCHANGED n
            ELSE /\ UNCHANGED << sevenZipBin, version >>
                 /\ IF n < MaxNames
                      THEN /\ n' = n + 1
                           /\ UNCHANGED pc
                      ELSE /\ pc' = "builtin"
                           /\ n' = 1
  /\ UNCHANGED << inputVars, d, issued, pipelineVars, result >>

\* PickBuiltin that accepts the embedded binary only with a recognized answer
PickBuiltinStrict(t) ==
  IF t.ok THEN [bin |-> Builtin7za, version |-> t.out] ELSE [bin |-> NoBin, version |-> {}]

\* PickBuiltin that drops the text of the answer
PickBuiltinNoVersion(t) == [bin |-> Builtin7za, version |-> {}]

\* what pick7zBinary returns once the embedded binary has been queried
PickBuiltin(t) == [bin |-> Builtin7za, version |-> t.out]

\* pick7zBinary, tier 4: the embedded 7za
TryBuiltin ==
  /\ pc = "builtin"
  /\ LET o == AnswerIn(env, Builtin7za) IN
       /\ tried' = Append(tried, Builtin7za)
       /\ chmod' = "none"
       /\ launches' = launches + 1
       /\ sevenZipBin' = PickBuiltin(tryCmd(o)).bin
       /\ version' = PickBuiltin(tryCmd(o)).version
       /\ pc' = "validate"
  /\ UNCHANGED << inputVars, d, n, issued, pipelineVars, result >>

\* ------------------------------------------------------------ convert
\* 1) the checks of the input path
Validate ==
  /\ pc = "validate"
  /\ LET e == ValidationError(filePath, inputKind)
     IN IF e = "none"
          THEN /\ pc' = "probe"
               /\ UNCHANGED result
          ELSE /\ pc' = "done"
               /\ result' = e
  /\ UNCHANGED << inputVars, resolverVars, launches, issued, pipelineVars >>

\* 2) the probe listing answered with the exit code ec and the text all, and
\* the checks of its result, 3) the output path
ProbeWith(ec, all) ==
  /\ pr' = probe(ec, all)
  /\ launches' = launches + 1
  /\ issued' = Append(issued, "probe")
  /\ IF ProbeVerdict(pr') = "ok"
       THEN /\ outZip' = ComputeOutZip(filePath, outputPath)
            /\ pc' = "mkdtemp"
            /\ UNCHANGED result
       ELSE /\ result' = ProbeVerdict(pr')
            /\ pc' = "done"
            /\ UNCHANGED outZip
  /\ UNCHANGED << inputVars, resolverVars, tmpRoot, workTree, archive, walking, entries,
                  packEntries, extractR, packR, packLog, fs, verifyR >>

Probe ==
  /\ pc = "probe"
  /\ \E ec \in RunExits, all \in SUBSET ProbeFrags :
       /\ (ec = Undef => all = {})
       /\ ProbeWith(ec, all)

\* 4) fsp.mkdtemp
Mkdtemp ==
  /\ pc = "mkdtemp"
  /\ \E ok \in BOOLEAN :
       IF ok
         THEN /\ tmpRoot' = "exists"
              /\ pc' = "mkdir"
              /\ UNCHANGED result
         ELSE /\ result' = "MkdtempFailed"
              /\ pc' = "done"
              /\ UNCHANGED tmpRoot
  /\ UNCHANGED << inputVars, resolverVars, launches, issued, pr, outZip, workTree,
                  archive, walking, entries, packEntries, extractR, packR, packLog, fs, verifyR >>

\* a failed mkdir after which the extraction is started all the same
AfterMkdirErrorExtracts == "extract"

\* where convert goes when fsp.mkdir(workDir) rejects: it is awaited before
\* the try block is entered
AfterMkdirError == "done"

\* 4) fsp.mkdir(workDir)
Mkdir ==
  /\ pc = "mkdir"
  /\ \E ok \in BOOLEAN :
       IF ok
         THEN /\ pc' = "extract"
              /\ UNCHANGED result
         ELSE /\ result' = "MkdirFailed"
              /\ pc' = AfterMkdirError
  /\ UNCHANGED << inputVars, resolverVars, launches, issued, pipelineVars >>

\* ExtractError that does not look at the version of the binary
ExtractErrorAnyVersion(efail, versionOut) ==
  IF efail THEN "ExtractP7zip16" ELSE "ExtractFailed"

\* the error extractWith7z raises for a non-zero exit
ExtractError(efail, versionOut) ==
  IF efail /\ isP7zip16(versionOut) THEN "ExtractP7zip16" ELSE "ExtractFailed"

\* 5) extractWith7z; when it returns listAllRelativeEntries is called and
\* awaits its first fsp.lstat
Extract ==
  /\ pc = "extract"
  /\ \E ec \in RunExits, efail \in BOOLEAN, tree \in Trees :
       /\ (ec = Undef => ~efail)
       \* /E_FAIL/i is tested on the text of a failed command only
       /\ (ec = 0 => ~efail)
       /\ extractR' = [exitCode |-> ec, efail |-> efail]
       /\ launches' = launches + 1
       /\ issued' = Append(issued, "extract")
       /\ IF ec = 0
            THEN /\ archive' = tree
                 /\ workTree' = tree
                 /\ walking' = StartWalk
                 /\ pc' = "list"
                 /\ UNCHANGED result
            ELSE /\ result' = ExtractError(efail, version)
                 /\ pc' = "cleanup"
                 /\ UNCHANGED << archive, workTree, walking >>
  /\ UNCHANGED << inputVars, resolverVars, pr, outZip, tmpRoot, entries, packEntries,
                  packR, packLog, fs, verifyR >>

\* 6) listAllRelativeEntries after one of its awaits: it goes on as w, or it
\* has returned and what is packed is chosen
Walked(w) ==
  IF w.op = "none"
    THEN /\ walking' = NoWalk
         /\ entries' = w.acc
         /\ IF Len(entries') = 0
              THEN /\ pc' = "placeholder"
                   /\ UNCHANGED packEntries
              ELSE /\ pc' = "pack1"
                   /\ packEntries' = entries'
         /\ UNCHANGED result
    ELSE /\ walking' = w
         /\ UNCHANGED << pc, entries, packEntries, result >>

\* 6) an await of listAllRelativeEntries rejects: the error leaves the try
\* block
WalkRejected ==
  /\ result' = "ListFailed"
  /\ pc' = "cleanup"
  /\ walking' = NoWalk
  /\ UNCHANGED << entries, packEntries >>

\* the working directory, or something that is in it now
Present(rel) == rel = <<>> \/ rel \in workTree

\* 6) const st = await fsp.lstat(abs): it rejects for a path that is gone, and
\* can reject for any
WalkLstat ==
  /\ pc = "list"
  /\ walking.op = "lstat"
  /\ \E ok \in BOOLEAN :
       /\ (ok => Present(walking.rel))
       /\ IF ok THEN Walked(AfterLstat(walking)) ELSE WalkRejected
  /\ UNCHANGED << inputVars, resolverVars, launches, issued, pr, outZip, tmpRoot,
                  workTree, archive, extractR, packR, packLog, fs, verifyR >>

\* 6) const names = await fsp.readdir(abs)
WalkReaddir ==
  /\ pc = "list"
  /\ walking.op = "readdir"
  /\ \E ok \in BOOLEAN :
       /\ (ok => Present(walking.rel))
       /\ IF ok THEN Walked(AfterReaddir(walking, workTree)) ELSE WalkRejected
  /\ UNCHANGED << inputVars, resolverVars, launches, issued, pr, outZip, tmpRoot,
                  workTree, archive, extractR, packR, packLog, fs, verifyR >>

\* 7) zero entries: fsp.writeFile of the placeholder
WritePlaceholder ==
  /\ pc = "placeholder"
  /\ \E ok \in BOOLEAN :
       IF ok
         THEN /\ workTree' = workTree \cup {Placeholder}
              /\ packEntries' = <<Entry(Placeholder, FALSE)>>
              /\ pc' = "pack1"
              /\ UNCHANGED result
         ELSE /\ result' = "WriteFailed"
              /\ pc' = "cleanup"
              /\ UNCHANGED << workTree, packEntries >>
  /\ UNCHANGED << inputVars, resolverVars, launches, issued, pr, outZip, tmpRoot,
                  archive, walking, entries, extractR, packR, packLog, fs, verifyR >>

\* what the add command leaves at its archive path when it exits with 0: the
\* members already in an archive found there are kept, the named ones added
AddEffect(f, args, tree) ==
  Zip((IF f.kind = "zip" THEN f.members ELSE {}) \cup AddedMembers(args, tree))

\* AfterAdd that lets a failure of the last tier pass
AfterAddLastTierPasses(tier, r, placeholderCase) ==
  IF tier = 1 /\ RetryWithoutTime(r) THEN "pack2"
  ELSE IF tier <= 2 /\ RetryWithoutMmt(r) THEN "pack3"
  ELSE IF r.exitCode # 0 /\ tier < 3 THEN "cleanup"
  ELSE IF placeholderCase THEN "delete"
  ELSE "verify"

\* addZipWith7z after the add command of a tier has returned r
AfterAdd(tier, r, placeholderCase) ==
  IF tier = 1 /\ RetryWithoutTime(r) THEN "pack2"
  ELSE IF tier <= 2 /\ RetryWithoutMmt(r) THEN "pack3"
  ELSE IF r.exitCode # 0 THEN "cleanup"
  ELSE IF placeholderCase THEN "delete"
  ELSE "verify"

\* one add command of addZipWith7z, run with cwd = workDir.  It can exit with 0
\* only where nothing or an archive is at its archive path, and it leaves the
\* path as it was when it fails.
Pack(tier) ==
  /\ \E ec \in RunExits, all \in SUBSET PackFrags :
       LET loc == Resolve(outZip, "work")
       IN /\ (ec = Undef => all = {})
          /\ (ec = 0 => fs[loc].kind \in {"none", "zip"})
          /\ fs' = IF ec = 0
                     THEN [fs EXCEPT ![loc] = AddEffect(fs[loc], packEntries, workTree)]
                     ELSE fs
          /\ pc' = AfterAdd(tier, [exitCode |-> ec, all |-> all], Len(entries) = 0)
          \* r is local to addZipWith7z: it is kept while the function
          \* runs and in the error it throws
          /\ packR' = IF pc' \in {"delete", "verify"}
                        THEN NoRun
                        ELSE [exitCode |-> ec, all |-> all]
          /\ packLog' = Append(packLog, [flags |-> PackFlags(tier), outZip |-> outZip,
                                         entries |-> packEntries, exitCode |-> ec])
  /\ launches' = launches + 1
  /\ issued' = Append(issued, "add")
  /\ result' = IF pc' = "cleanup" THEN "PackFailed" ELSE result
  /\ UNCHANGED << inputVars, resolverVars, pr, outZip, tmpRoot, workTree, archive,
                  walking, entries, packEntries, extractR, verifyR >>

\* 1) timestamps and multi-threading
Pack1 == pc = "pack1" /\ Pack(1)
\* 2) without the timestamp switches
Pack2 == pc = "pack2" /\ Pack(2)
\* 3) without the multi-thread switch
Pack3 == pc = "pack3" /\ Pack(3)

\* 7) zero entries: run(bin, ['d', outZip, placeholder]) in the caller's
\* directory, its result ignored
DeletePlaceholder ==
  /\ pc = "delete"
  /\ \E ec \in RunExits :
       LET loc == Resolve(outZip, "caller")
       IN /\ (ec = 0 => fs[loc].kind = "zip")
          /\ fs' = IF ec = 0
                     THEN [fs EXCEPT ![loc] = Zip(fs[loc].members \ {Member(Placeholder)})]
                     ELSE fs
  /\ launches' = launches + 1
  /\ issued' = Append(issued, "delete")
  /\ pc' = "verify"
  /\ UNCHANGED << inputVars, resolverVars, pr, outZip, tmpRoot, workTree, archive,
                  walking, entries, packEntries, extractR, packR, packLog, verifyR, result >>

\* the count lines of a listing text: what all.match(/^\s*Files\s*=\s*(\d+)/im)
\* and the like for Folders find, <<>> where the text has no such line
NoCounts == [files |-> <<>>, folders |-> <<>>]

\* the count lines of a listing that counts the members of what is at a path
CountLines(f) ==
  [ files   |-> <<Cardinality({m \in f.members : ~m.dir})>>,
    folders |-> <<Cardinality({m \in f.members : m.dir})>> ]

\* verifyZip: the counts parsed from the text, 0 where it has no count line;
\* the exit code of the listing is not read
verifyZip(all) ==
  [ files   |-> IF all.files = <<>> THEN 0 ELSE all.files[1],
    folders |-> IF all.folders = <<>> THEN 0 ELSE all.folders[1] ]

\* 8) verifyZip, run in the caller's directory: the listing ends with any
\* exit code and prints the count lines or not
Verify ==
  /\ pc = "verify"
  /\ \E ec \in RunExits :
       LET loc == Resolve(outZip, "caller")
       IN /\ (ec = 0 => fs[loc].kind = "zip")
          /\ \E all \in {NoCounts, CountLines(fs[loc])} :
               /\ (ec = Undef => all = NoCounts)
               /\ verifyR' = [exitCode |-> ec, ret |-> verifyZip(all)]
  /\ launches' = launches + 1
  /\ issued' = Append(issued, "verify")
  /\ pc' = "stat"
  /\ UNCHANGED << inputVars, resolverVars, pr, outZip, tmpRoot, workTree, archive,
                  walking, entries, packEntries, extractR, packR, packLog, fs, result >>

\* StatCheck that takes anything for the output file
StatCheckAny(f) == "ok"

\* the outcome of the check of fsp.stat(outZip)
StatCheck(f) == IF isFile(f) THEN "ok" ELSE "OutputMissing"

\* 8) fsp.stat(outZip) and the return
Stat ==
  /\ pc = "stat"
  /\ result' = StatCheck(fs[Resolve(outZip, "caller")])
  /\ pc' = "cleanup"
  /\ UNCHANGED << inputVars, resolverVars, launches, issued, pipelineVars >>

\* finally: fsp.rm(tmpRoot, recursive, force), a rejection swallowed
Cleanup ==
  /\ pc = "cleanup"
  /\ \E ok \in BOOLEAN :
       IF ok
         THEN /\ tmpRoot' = "removed"
              /\ workTree' = {}
              /\ fs' = [fs EXCEPT !["work"] = NoFile]
         ELSE UNCHANGED << tmpRoot, workTree, fs >>
  /\ pc' = "done"
  /\ UNCHANGED << inputVars, resolverVars, launches, issued, pr, outZip, archive,
                  walking, entries, packEntries, extractR, packR, packLog, verifyR, result >>

Next ==
  \/ Call
  \/ EnsureOverride
  \/ TryOverride
  \/ EnsureDirs
  \/ TryDirs
  \/ TryPath
  \/ TryBuiltin
  \/ Validate
  \/ Probe
  \/ Mkdtemp
  \/ Mkdir
  \/ Extract
  \/ WalkLstat
  \/ WalkReaddir
  \/ WritePlaceholder
  \/ Pack1
  \/ Pack2
  \/ Pack3
  \/ DeletePlaceholder
  \/ Verify
  \/ Stat
  \/ Cleanup

Spec == Init /\ [][Next]_vars

\* ------------------------------------------------------------ two calls
\* Two successive calls of convert7zToZip in one process, with an input that
\* fails validation, so that each call is its resolution; between them the
\* environment is left alone or changed in one respect.

\* process.env.CONVERT_7Z_BIN is set, unset, or names another file
SetBin ==
  /\ pc = "done"
  /\ call = 1
  /\ \E o \in OverrideStates \ {env.override} : env' = [env EXCEPT !.override = o]
  /\ pc' = "between"
  /\ UNCHANGED << argVars, loaded, call, first, listed, resolverVars, launches,
                  issued, pipelineVars, result, outsideVars >>

\* process.env.CONVERT_7Z_BIN_DIR is set, deleted, or pointed at the other
\* directory; the list built when the module was loaded stays as it is
SetBinDir ==
  /\ pc = "done"
  /\ call = 1
  /\ \E b \in (BinDirs \cup {Unset}) \ {env.binDir} : env' = [env EXCEPT !.binDir = b]
  /\ pc' = "between"
  /\ UNCHANGED << argVars, loaded, call, first, listed, resolverVars, launches,
                  issued, pipelineVars, result, outsideVars >>

\* a candidate file of a directory is created, removed or replaced
SetFile ==
  /\ pc = "done"
  /\ call = 1
  /\ \E c \in DirBins :
       \E st \in DirStates \ {env.dirs[c]} : env' = [env EXCEPT !.dirs[c] = st]
  /\ pc' = "between"
  /\ UNCHANGED << argVars, loaded, call, first, listed, resolverVars, launches, issued,
                  pipelineVars, result, outsideVars >>

\* convert7zToZip is called again: its locals and those of pick7zBinary are
\* new, the module-level list is the one built at load
CallAgain ==
  /\ pc \in {"done", "between"}
  /\ call = 1
  /\ first' = [bin |-> sevenZipBin, version |-> version, changed |-> pc = "between"]
  /\ call' = 2
  /\ pc' = "idle"
  /\ d' = 1
  /\ n' = 1
  /\ tried' = <<>>
  /\ sevenZipBin' = NoBin
  /\ version' = {}
  /\ chmod' = "none"
  /\ launches' = 0
  /\ result' = "none"
  /\ UNCHANGED << argVars, env, loaded, listed, issued, pipelineVars, outsideVars >>

InitTwoCalls ==
  /\ Init
  /\ env \in TwoCallEnvs
  /\ filePath = SweepFilePath
  /\ outputPath = Absent
  /\ inputKind = "none"
  /\ fs = [caller |-> NoFile, work |-> NoFile]

NextTwoCalls ==
  \/ Call
  \/ EnsureOverride
  \/ TryOverride
  \/ EnsureDirs
  \/ TryDirs
  \/ TryPath
  \/ TryBuiltin
  \/ Validate
  \/ SetBin
  \/ SetBinDir
  \/ SetFile
  \/ CallAgain

TwoCalls == InitTwoCalls /\ [][NextTwoCalls]_vars

\* ------------------------------------------------------------ probe alone
\* convert7zToZip from its probe on, the embedded p7zip 16.02 resolved and the
\* input validated, for every exit code and every text of the listing command

InitProbes ==
  /\ pc = "probe"
  /\ filePath = SweepFilePath
  /\ outputPath = Absent
  /\ inputKind = "file"
  /\ env = EnvBuiltin
  /\ loaded = LoadModule(env)
  /\ call = 1
  /\ first = NoPick
  /\ listed \in { [exitCode |-> ec, all |-> all] : ec \in ExitCodes, all \in SUBSET ListFrags }
  /\ (listed.exitCode = Undef => listed.all = {})
  /\ d = 1
  /\ n = 1
  /\ tried = [i \in 1..MaxNames |-> PathBin(i)] \o <<Builtin7za>>
  /\ sevenZipBin = Builtin7za
  /\ version = P7zip.out
  /\ chmod = "none"
  /\ launches = MaxNames + 1
  /\ issued = <<>>
  /\ pr = NoProbe
  /\ outZip = <<>>
  /\ tmpRoot = "absent"
  /\ workTree = {}
  /\ archive = {}
  /\ walking = NoWalk
  /\ entries = <<>>
  /\ packEntries = <<>>
  /\ extractR = NoExtract
  /\ packR = NoRun
  /\ packLog = <<>>
  /\ fs = [caller |-> NoFile, work |-> NoFile]
  /\ verifyR = NoVerify
  /\ result = "none"
  /\ OutsideInit

\* probe, answered with the answer fixed in advance
ProbeListed ==
  /\ pc = "probe"
  /\ ProbeWith(listed.exitCode, listed.all)

NextProbes == ProbeListed

Probes == InitProbes /\ [][NextProbes]_vars

\* ------------------------------------------------------------ lister alone
\* convert7zToZip at its step 6, after an extraction that left any of the
\* deeper trees in the working directory

NextLists ==
  \/ WalkLstat
  \/ WalkReaddir

InitLists ==
  /\ pc = "list"
  /\ filePath = SweepFilePath
  /\ outputPath = Absent
  /\ inputKind = "file"
  /\ env = EnvBuiltin
  /\ loaded = LoadModule(env)
  /\ call = 1
  /\ first = NoPick
  /\ listed = NoRun
  /\ d = 1
  /\ n = 1
  /\ tried = [i \in 1..MaxNames |-> PathBin(i)] \o <<Builtin7za>>
  /\ sevenZipBin = Builtin7za
  /\ version = P7zip.out
  /\ chmod = "none"
  /\ launches = MaxNames + 3
  /\ issued = <<"probe", "extract">>
  /\ pr = probe(0, {"Type = 7z"})
  /\ outZip = ComputeOutZip(filePath, outputPath)
  /\ tmpRoot = "exists"
  /\ workTree \in DeepTrees
  /\ archive = workTree
  /\ walking = StartWalk
  /\ entries = <<>>
  /\ packEntries = <<>>
  /\ extractR = [exitCode |-> 0, efail |-> FALSE]
  /\ packR = NoRun
  /\ packLog = <<>>
  /\ fs = [caller |-> NoFile, work |-> NoFile]
  /\ verifyR = NoVerify
  /\ result = "none"
  /\ OutsideInit

Lists == InitLists /\ [][NextLists]_vars

\* ------------------------------------------------------------ lister, tree changing
\* The same walk over a working directory that something outside the call
\* writes to while the walk awaits: the list is then put together from the
\* trees read at the single awaits.
TreeChanged ==
  /\ pc = "list"
  /\ \E t \in DeepTrees \ {workTree} : workTree' = t
  /\ UNCHANGED << inputVars, resolverVars, launches, issued, pr, outZip, tmpRoot, archive,
                  walking, entries, packEntries, extractR, packR, packLog, fs, verifyR,
                  result, pc >>

NextDisturbed ==
  \/ WalkLstat
  \/ WalkReaddir
  \/ TreeChanged

Disturbed == InitLists /\ [][NextDisturbed]_vars

\* ------------------------------------------------------------ standalone tool
\* The module run as a script (require.main === module): inPath and outPath
\* are process.argv[2] and process.argv[3], strings or undefined.

\* the exit code that ignores how convert7zToZip ended
CliExitCodeAlwaysZero(res) == 0

\* the exit code after convert7zToZip: process.exit(2) in the catch block, the
\* code of a process that ends by itself otherwise
CliExitCode(res) == IF res = "ok" THEN 0 ELSE 2

\* if (!inPath) { console.error(usage); process.exit(1) }, else the call
CliMain ==
  /\ pc = "cli"
  /\ IF Falsy(filePath)
       THEN /\ stderr' = Append(stderr, "usage")
            /\ exitStatus' = 1
            /\ pc' = "exited"
       ELSE /\ pc' = "idle"
            /\ UNCHANGED << exitStatus, stderr >>
  /\ UNCHANGED << argVars, env, loaded, call, first, listed, resolverVars, launches,
                  issued, pipelineVars, result, inv, tmpFs, indexVars >>

\* the call returned (logger.info) or threw (console.error, process.exit(2))
CliEnd ==
  /\ pc = "done"
  /\ stderr' = IF result = "ok" THEN stderr ELSE Append(stderr, result)
  /\ exitStatus' = CliExitCode(result)
  /\ pc' = "exited"
  /\ UNCHANGED << argVars, env, loaded, call, first, listed, resolverVars, launches,
                  issued, pipelineVars, result, inv, tmpFs, indexVars >>

InitCli ==
  /\ pc = "cli"
  /\ InitCall

NextCli ==
  \/ CliMain
  \/ Next
  \/ CliEnd

Cli == InitCli /\ [][NextCli]_vars

\* ------------------------------------------------------------ concurrent calls
\* Several calls of convert7zToZip in flight in one process, from step 4 on:
\* every await is a point where another call can run.

\* a temporary directory of one fixed name
mkdtempFixedName(existing) == {1}

\* fsp.mkdtemp(prefix): the names it can return, none of a directory that exists
mkdtemp(existing) == TmpNames \ existing

Existing == {x \in TmpNames : tmpFs[x].exists}

\* the call i holds a temporary root: from mkdtemp to the end of its cleanup
Holds(i) ==
  /\ inv[i].tmpRoot # NoRoot
  /\ inv[i].pc \in {"mkdir", "extract", "lstat", "readdir", "write", "add", "delete",
                    "verify", "stat", "cleanup"}

\* 4) tmpRoot = await fsp.mkdtemp(...)
InvMkdtemp(i) ==
  /\ inv[i].pc = "start"
  /\ \/ \E x \in mkdtemp(Existing) :
          /\ inv' = [inv EXCEPT ![i].tmpRoot = x, ![i].pc = "mkdir"]
          /\ tmpFs' = [tmpFs EXCEPT ![x].exists = TRUE]
     \/ /\ inv' = [inv EXCEPT ![i].pc = "done"]
        /\ UNCHANGED tmpFs
  /\ UNCHANGED << convertVars, exitStatus, stderr, indexVars >>

\* workDir = path.join(tmpRoot, 'w'); await fsp.mkdir(workDir): an error ends
\* the call before its try block
InvMkdir(i) ==
  /\ inv[i].pc = "mkdir"
  /\ \E ok \in BOOLEAN : inv' = [inv EXCEPT ![i].pc = IF ok THEN "extract" ELSE "done"]
  /\ UNCHANGED << convertVars, exitStatus, stderr, tmpFs, indexVars >>

\* 5) extractWith7z(sevenZipBin, filePath, workDir, version)
InvExtract(i) ==
  /\ inv[i].pc = "extract"
  /\ \E ok \in BOOLEAN :
       /\ inv' = [inv EXCEPT ![i].pc = IF ok THEN "lstat" ELSE "cleanup"]
       /\ tmpFs' = [tmpFs EXCEPT ![inv[i].tmpRoot].writers = @ \cup {i}]
  /\ UNCHANGED << convertVars, exitStatus, stderr, indexVars >>

\* where a call goes when listAllRelativeEntries has returned: to the
\* placeholder when it listed nothing, to addZipWith7z otherwise
Listed(i, empty) ==
  [inv EXCEPT ![i].pc = IF empty THEN "write" ELSE "add", ![i].empty = empty,
              ![i].saw = @ \cup tmpFs[inv[i].tmpRoot].writers]

\* 6) listAllRelativeEntries(workDir): one await fsp.lstat(abs).  It rejects,
\* finds a directory, whose names are read next, or finds a file, after
\* which the next path is walked or the walk is over.
InvLstat(i) ==
  /\ inv[i].pc = "lstat"
  /\ \/ inv' = [inv EXCEPT ![i].pc = "cleanup"]
     \/ \E next \in {"readdir", "lstat"} :
          inv' = [inv EXCEPT ![i].pc = next,
                             ![i].saw = @ \cup tmpFs[inv[i].tmpRoot].writers]
     \/ inv' = Listed(i, FALSE)
  /\ UNCHANGED << convertVars, exitStatus, stderr, tmpFs, indexVars >>

\* 6) listAllRelativeEntries(workDir): one await fsp.readdir(abs).  It
\* rejects, or the first of the names is walked, or there is none and the
\* walk goes on with what is left or is over.
InvReaddir(i) ==
  /\ inv[i].pc = "readdir"
  /\ \/ inv' = [inv EXCEPT ![i].pc = "cleanup"]
     \/ inv' = [inv EXCEPT ![i].pc = "lstat",
                           ![i].saw = @ \cup tmpFs[inv[i].tmpRoot].writers]
     \/ \E empty \in BOOLEAN : inv' = Listed(i, empty)
  /\ UNCHANGED << convertVars, exitStatus, stderr, tmpFs, indexVars >>

\* 7) zero entries: await fsp.writeFile(path.join(workDir, placeholder), '')
InvWrite(i) ==
  /\ inv[i].pc = "write"
  /\ \E ok \in BOOLEAN :
       /\ inv' = [inv EXCEPT ![i].pc = IF ok THEN "add" ELSE "cleanup",
                             ![i].empty = ok]
       /\ tmpFs' = IF ok THEN [tmpFs EXCEPT ![inv[i].tmpRoot].writers = @ \cup {i}] ELSE tmpFs
  /\ UNCHANGED << convertVars, exitStatus, stderr, indexVars >>

\* 7) addZipWith7z: one awaited add command, run with cwd = workDir.  It is
\* followed by the next of the three commands, by the error of a failed
\* packing, or by the return, with which the locals of the function go.
InvAdd(i) ==
  /\ inv[i].pc = "add"
  /\ \E next \in {"add", "cleanup", IF inv[i].empty THEN "delete" ELSE "verify"} :
       /\ (next = "add" => inv[i].adds < 2)
       /\ inv' = [inv EXCEPT ![i].pc = next,
                             ![i].adds = IF next = "add" THEN @ + 1 ELSE 0,
                             ![i].empty = IF next = "add" THEN @ ELSE FALSE,
                             ![i].saw = @ \cup tmpFs[inv[i].tmpRoot].writers]
  /\ UNCHANGED << convertVars, exitStatus, stderr, tmpFs, indexVars >>

\* 7) zero entries: await run(sevenZipBin, ['d', outZip, placeholder])
InvDelete(i) ==
  /\ inv[i].pc = "delete"
  /\ inv' = [inv EXCEPT ![i].pc = "verify"]
  /\ UNCHANGED << convertVars, exitStatus, stderr, tmpFs, indexVars >>

\* 8) await verifyZip(sevenZipBin, outZip)
InvVerify(i) ==
  /\ inv[i].pc = "verify"
  /\ inv' = [inv EXCEPT ![i].pc = "stat"]
  /\ UNCHANGED << convertVars, exitStatus, stderr, tmpFs, indexVars >>

\* 8) await fsp.stat(outZip), and the return or the error
InvStat(i) ==
  /\ inv[i].pc = "stat"
  /\ inv' = [inv EXCEPT ![i].pc = "cleanup"]
  /\ UNCHANGED << convertVars, exitStatus, stderr, tmpFs, indexVars >>

\* finally: fsp.rm(tmpRoot, { recursive, force }), its error swallowed
InvCleanup(i) ==
  /\ inv[i].pc = "cleanup"
  /\ \E ok \in BOOLEAN :
       IF ok
         THEN /\ inv' = [inv EXCEPT ![i].pc = "done",
                                    ![i].removed = {j \in Invocations : Holds(j) /\ inv[j].tmpRoot = inv[i].tmpRoot}]
              /\ tmpFs' = [tmpFs EXCEPT ![inv[i].tmpRoot] = [exists |-> FALSE, writers |-> {}]]
         ELSE /\ inv' = [inv EXCEPT ![i].pc = "done"]
              /\ UNCHANGED tmpFs
  /\ UNCHANGED << convertVars, exitStatus, stderr, indexVars >>

NextConcurrent ==
  \E i \in Invocations :
    \/ InvMkdtemp(i)
    \/ InvMkdir(i)
    \/ InvExtract(i)
    \/ InvLstat(i)
    \/ InvReaddir(i)
    \/ InvWrite(i)
    \/ InvAdd(i)
    \/ InvDelete(i)
    \/ InvVerify(i)
    \/ InvStat(i)
    \/ InvCleanup(i)

InitConcurrent ==
  /\ Init
  /\ env = EnvNone
  /\ filePath = SweepFilePath
  /\ outputPath = Absent
  /\ inputKind = "none"
  /\ fs = [caller |-> NoFile, work |-> NoFile]

Concurrent == InitConcurrent /\ [][NextConcurrent]_vars

\* ------------------------------------------------------------ index manager
\* no convert call, no standalone process, no concurrent calls
HostIdle ==
  /\ pc = "idle"
  /\ InitConvert
  /\ env = EnvNone
  /\ filePath = SweepFilePath
  /\ outputPath = Absent
  /\ inputKind = "none"
  /\ fs = [caller |-> NoFile, work |-> NoFile]
  /\ NoProcess
  /\ NoInvocations

hostVars == << convertVars, exitStatus, stderr, inv, tmpFs >>

\* hasUpdate that compares the version alone
hasUpdateVersionOnly(index, key, data) ==
  \/ index[key] = NoItem
  \/ index[key].version # data.version

\* hasUpdate(key, data) on a loaded index
hasUpdate(index, key, data) ==
  \/ index[key] = NoItem
  \/ index[key].version # data.version
  \/ index[key].md5 # data.md5

\* update(key, data): the manager after the call
update(m, key, data) ==
  IF hasUpdate(m.index, key, data)
    THEN [m EXCEPT !.index[key] = data, !.updates = @ + 1]
    ELSE m

\* load(): this.index after getFileContentFromCOS answered: the parsed
\* index.json, or {} for NoSuchKey
LoadedIndex(store) == IF store.exists THEN store.index ELSE EmptyIndex

\* save() that forgets the pending updates even when the upload failed
PendingAfterSaveAlwaysZero(m, uploaded) == 0

\* save(): this.updates once uploadFileToCOS has resolved or rejected
PendingAfterSave(m, uploaded) == IF uploaded THEN 0 ELSE m.updates

\* uploadFileToCOS(filePath, cosFilePath): the object at a path is replaced
PutArtifact(store, key, item) ==
  [store EXCEPT !.artifacts =
     {a \in @ : ~(a.platform = key /\ a.item.version = item.version)} \cup {Artifact(key, item)}]

\* uploadFileToCOS(Buffer.from(content), this.indexPath)
PutIndex(store, index) == [store EXCEPT !.exists = TRUE, !.index = index]

\* what the storage holds under the base path of the manager
Store == cos[rim.basePath]

\* the storage after an upload under the base path of the manager
Stored(store) == [cos EXCEPT ![rim.basePath] = store]

\* ------------------------------------------------------------ manager calls
\* One ResourceIndexManager called by one caller that awaits every call: any
\* sequence of load, get, hasUpdate, update and save.

Thrown == "thrown"

\* a manager whose methods never ask for a loaded index
NotLoadedNever(m) == FALSE

\* if (!this.index) throw new Error(...): the test that opens get, hasUpdate,
\* update and save
NotLoaded(m) == ~m.loaded

\* load(): the index of the storage, {} when there is none, or an error other
\* than NoSuchKey, which is thrown
MgrLoad ==
  /\ \E ok \in BOOLEAN :
       /\ rim' = IF ok THEN [rim EXCEPT !.loaded = TRUE, !.index = LoadedIndex(Store)] ELSE rim
       /\ lastCall' = CallRecord("load", ~ok, IF ok THEN LoadedIndex(Store) ELSE Thrown, "none",
                                 rim.updates, lastCall.since, lastCall.since)
  /\ UNCHANGED << hostVars, cos, task >>

\* get(key)
MgrGet ==
  /\ \E key \in Platforms :
       lastCall' = CallRecord("get", NotLoaded(rim), IF ~NotLoaded(rim) THEN rim.index[key] ELSE Thrown,
                              "none", rim.updates, lastCall.since, lastCall.since)
  /\ UNCHANGED << hostVars, rim, cos, task >>

\* hasUpdate(key, data)
MgrHasUpdate ==
  /\ \E key \in Platforms, data \in Items :
       lastCall' = CallRecord("hasUpdate", NotLoaded(rim),
                              IF ~NotLoaded(rim) THEN hasUpdate(rim.index, key, data) ELSE Thrown,
                              "none", rim.updates, lastCall.since, lastCall.since)
  /\ UNCHANGED << hostVars, rim, cos, task >>

\* update(key, data)
MgrUpdate ==
  /\ rim.updates < MaxUpdates
  /\ \E key \in Platforms, data \in Items :
       /\ rim' = IF ~NotLoaded(rim) THEN update(rim, key, data) ELSE rim
       \* the record of an update keeps its arguments and the index it found
       /\ lastCall' = CallRecord("update", NotLoaded(rim),
                                 IF ~NotLoaded(rim) THEN hasUpdate(rim.index, key, data) ELSE Thrown,
                                 "none", rim.updates, lastCall.since,
                                 IF rim'.index # rim.index THEN lastCall.since + 1
                                                           ELSE lastCall.since)
                      @@ [key |-> key, data |-> data, before |-> rim.index]
  /\ UNCHANGED << hostVars, cos, task >>

\* save(): throws when not loaded, returns at once when nothing is pending,
\* uploads otherwise; a rejected upload is thrown before this.updates is reset
MgrSave ==
  /\ \E uploaded \in BOOLEAN :
       /\ ((NotLoaded(rim) \/ rim.updates = 0) => uploaded)
       /\ IF NotLoaded(rim)
            THEN /\ lastCall' = CallRecord("save", TRUE, Thrown, "none", rim.updates,
                                           lastCall.since, lastCall.since)
                 /\ UNCHANGED << rim, cos >>
          ELSE IF rim.updates = 0
            THEN /\ lastCall' = CallRecord("save", FALSE, rim.updates, "none", rim.updates,
                                           lastCall.since, lastCall.since)
                 /\ UNCHANGED << rim, cos >>
          ELSE   /\ cos' = IF uploaded THEN Stored(PutIndex(Store, rim.index)) ELSE cos
                 /\ rim' = [rim EXCEPT !.updates = PendingAfterSave(rim, uploaded)]
                 /\ lastCall' = CallRecord("save", ~uploaded,
                                           IF uploaded THEN rim.updates ELSE Thrown,
                                           IF uploaded THEN "ok" ELSE "failed", rim.updates,
                                           lastCall.since,
                                           IF uploaded THEN 0 ELSE lastCall.since)
  /\ UNCHANGED << hostVars, task >>

InitManager ==
  /\ HostIdle
  /\ rim = NewManager("python")
  /\ cos \in { [NoObjects EXCEPT !["python"] = store] :
                store \in {EmptyStore} \cup {PutIndex(EmptyStore, ix) : ix \in Indexes} }
  /\ task = NoTask
  /\ lastCall = NoCall

NextManager ==
  \/ MgrLoad
  \/ MgrGet
  \/ MgrHasUpdate
  \/ MgrUpdate
  \/ MgrSave

Manager == InitManager /\ [][NextManager]_vars

\* ------------------------------------------------------------ download tasks
\* runCppTask, runPythonTask, runVSCodeTask and runVsixTask, one step for
\* every await. task.pc names the await the task is at; the code between two
\* awaits belongs to the step of the first.

TaskTypes == {"c_cpp", "python", "vscode", "vsix"}

\* the types whose results are lists of platforms
PlatformTasks == {"c_cpp", "python", "vscode"}

\* the platforms a task works on, in the order it works on them
Targets(t) ==
  CASE t.type = "c_cpp"  -> CppPlatforms
    [] t.type = "python" -> TARGET_PLATFORMS
    [] t.type = "vscode" -> VSCODE_TARGET_PLATFORMS
    [] OTHER             -> t.platforms

\* the base path of the manager a task has made
BaseOf(t) == IF t.type = "vsix" THEN vsixList[t.e] ELSE t.type

\* what earlier runs that uploaded every artifact left under a base path
StoreOf(ix) ==
  [exists |-> TRUE, index |-> ix,
   artifacts |-> {Artifact(k, ix[k]) : k \in {x \in Keys : ix[x] # NoItem}}]

ConsistentStores == {EmptyStore} \cup {StoreOf(ix) : ix \in Indexes}

\* for vscode: nothing, every platform at one version, or two of the four
VSCodeStores ==
  { EmptyStore,
    StoreOf([k \in Keys |-> IF k = "universal" THEN NoItem ELSE [version |-> "v1", md5 |-> "m1"]]),
    StoreOf([k \in Keys |-> IF k \in {"win32-x64", "darwin-x64"}
                              THEN [version |-> "v1", md5 |-> "m1"] ELSE NoItem]) }

\* for an extension: nothing, or a version for every platform
VsixStores ==
  { EmptyStore,
    StoreOf([k \in Keys |-> IF k = "universal" THEN [version |-> "v1", md5 |-> "m1"] ELSE NoItem]) }

\* the storage a task can find
Storages(type) ==
  CASE type = "vscode" -> { [NoObjects EXCEPT !["vscode"] = store] : store \in VSCodeStores }
    [] type = "vsix"   -> { [b \in BasePaths |-> IF b \in DOMAIN f THEN f[b] ELSE EmptyStore] :
                              f \in [{vsixList[x] : x \in 1..Len(vsixList)} -> VsixStores] }
    [] OTHER           -> { [NoObjects EXCEPT ![type] = store] : store \in ConsistentStores }

\* a task at its first await: the version request (python, vscode) or the
\* load of the manager it has just made (c_cpp, vsix)
Started(type) ==
  [NoTask EXCEPT !.type = type, !.pc = IF type \in {"python", "vscode"} THEN "fetch" ELSE "load"]

\* the version test that lets a platform be skipped
Skipped(t, index, key) == index[key] # NoItem /\ index[key].version = t.version

\* python, vscode, vsix: the loop from platform t.i up to its next await. A
\* platform without URL is pushed to failedPlatforms (vscode), a platform at
\* the latest version is passed over, the next one is downloaded; after the
\* last one comes the save
RECURSIVE LoopFrom(_, _)
LoopFrom(t, index) ==
  IF t.i > Len(Targets(t)) THEN [t EXCEPT !.pc = "save"]
  ELSE LET key == Targets(t)[t.i]
       IN IF t.type # "vsix" /\ key \notin t.urls
            THEN LoopFrom([t EXCEPT !.i = @ + 1, !.failedPlatforms = Append(@, key)], index)
          ELSE IF Skipped(t, index, key)
            THEN LoopFrom([t EXCEPT !.i = @ + 1], index)
          ELSE [t EXCEPT !.pc = "ensureDir"]

\* c_cpp: after block t.i comes the query of the next block, or the save
NextBlock(t) ==
  [t EXCEPT !.i = @ + 1, !.version = "none",
            !.pc = IF t.i < Len(CppPlatforms) THEN "info" ELSE "save"]

\* vsix: after extension t.e comes the load of the manager of the next one,
\* or the return
NextExtension(t) ==
  [t EXCEPT !.e = @ + 1, !.i = 1, !.version = "none", !.platforms = <<>>,
            !.pc = IF t.e < Len(vsixList) THEN "load" ELSE "returned"]

\* the catch of runVsixTask
ExtensionFailed(t) == NextExtension([t EXCEPT !.failedIds = Append(@, vsixList[t.e])])

\* the catch around the work on a platform; in runVsixTask a failure at a
\* platform is caught by the catch of the extension
PlatformFailed(t, index) ==
  LET pushed == [t EXCEPT !.failedPlatforms = Append(@, Targets(t)[t.i])]
  IN CASE t.type = "vsix"  -> ExtensionFailed(t)
       [] t.type = "c_cpp" -> NextBlock(pushed)
       [] OTHER            -> LoopFrom([pushed EXCEPT !.i = @ + 1], index)

\* successPlatforms.push(platform) and what follows; runVsixTask has no list
\* of platforms
PlatformDone(t, index) ==
  LET pushed == [t EXCEPT !.successPlatforms = Append(@, Targets(t)[t.i])]
  IN CASE t.type = "vsix"  -> LoopFrom([t EXCEPT !.i = @ + 1], index)
       [] t.type = "c_cpp" -> NextBlock(pushed)
       [] OTHER            -> LoopFrom([pushed EXCEPT !.i = @ + 1], index)

\* the task goes on as t with the manager m; runVsixTask makes a manager for
\* the extension it comes to
GoOn(t, m) ==
  /\ task' = t
  /\ rim' = IF t.type = "vsix" /\ t.e # task.e /\ t.pc = "load"
              THEN NewManager(BaseOf(t)) ELSE m

\* getLatestPythonVersion: one request; getLatestVSCodeVersion: one request
\* for every endpoint, the version from the first answer, a URL from every
\* answer that has one. A failed request is thrown. After the last answer the
\* manager is made
TaskFetch ==
  /\ task.pc = "fetch"
  /\ \E ok \in BOOLEAN, v \in Versions, url \in BOOLEAN :
       /\ (~ok => (v = "v1" /\ url))
       /\ (task.type = "python" => url)
       /\ (task.version # "none" => v = task.version)
       /\ IF ~ok
            THEN GoOn([task EXCEPT !.pc = "thrown"], rim)
          ELSE IF task.type = "python"
            THEN GoOn([task EXCEPT !.version = v, !.urls = Platforms, !.pc = "load"],
                      NewManager(BaseOf(task)))
          ELSE LET got == [task EXCEPT !.version = v,
                                       !.urls = IF url THEN @ \cup {apiEndpoints[task.i]} ELSE @]
               IN IF task.i < Len(apiEndpoints)
                    THEN GoOn([got EXCEPT !.i = @ + 1], rim)
                    ELSE GoOn([got EXCEPT !.i = 1, !.pc = "load"], NewManager(BaseOf(task)))
  /\ UNCHANGED << hostVars, cos, lastCall >>

\* await rim.load(), and what follows up to the next await
TaskLoad ==
  /\ task.pc = "load"
  /\ \E ok \in BOOLEAN :
       LET index == LoadedIndex(Store)
           ready == [rim EXCEPT !.loaded = TRUE, !.index = index]
           t == [task EXCEPT !.before = index]
       IN IF ~ok
            THEN IF task.type = "vsix" THEN GoOn(ExtensionFailed(task), rim)
                                       ELSE GoOn([task EXCEPT !.pc = "thrown"], rim)
          ELSE IF task.type \in {"c_cpp", "vsix"}
            THEN GoOn([t EXCEPT !.pc = "info"], ready)
          ELSE GoOn(LoopFrom(t, index), ready)
  /\ UNCHANGED << hostVars, cos, lastCall >>

\* c_cpp: await getMinGWForWin32X64DownloadInfo() and
\* getLLVMMinGWForWin32Arm64DownloadInfo(), then the version test: a skipped
\* platform is pushed to successPlatforms. vsix: await getLatestVersionInfo();
\* an extension without platforms is passed over
TaskInfo ==
  /\ task.pc = "info"
  /\ \E ok \in BOOLEAN, v \in Versions, ps \in VsixAnswers :
       /\ (~ok => v = "v1")
       /\ ((~ok \/ task.type = "c_cpp") => ps = <<>>)
       /\ LET t == [task EXCEPT !.version = v, !.platforms = ps]
          IN IF task.type = "c_cpp"
               THEN IF ~ok THEN GoOn(PlatformFailed(task, rim.index), rim)
                    ELSE IF Skipped(t, rim.index, CppPlatforms[t.i])
                      THEN GoOn(PlatformDone(t, rim.index), rim)
                    ELSE GoOn([t EXCEPT !.pc = "ensureDir"], rim)
             ELSE IF ~ok THEN GoOn(ExtensionFailed(task), rim)
                  ELSE IF ps = <<>> THEN GoOn(NextExtension(t), rim)
                  ELSE GoOn(LoopFrom(t, rim.index), rim)
  /\ UNCHANGED << hostVars, cos, lastCall >>

\* await fs.ensureDir(tempDir) of the download function
TaskEnsureDir ==
  /\ task.pc = "ensureDir"
  /\ \E ok \in BOOLEAN :
       IF ok THEN GoOn([task EXCEPT !.pc = "download"], rim)
             ELSE GoOn(PlatformFailed(task, rim.index), rim)
  /\ UNCHANGED << hostVars, cos, lastCall >>

\* await downloadFile(...), then genIndexItemForFile and rim.update(): the
\* upload follows when update returned true
TaskDownload ==
  /\ task.pc = "download"
  /\ \E ok \in BOOLEAN, md5 \in Md5s :
       /\ (~ok => md5 = "m1")
       /\ LET key == Targets(task)[task.i]
              item == [version |-> task.version, md5 |-> md5]
          IN IF ~ok THEN GoOn(PlatformFailed(task, rim.index), rim)
             ELSE GoOn([task EXCEPT !.pc = IF hasUpdate(rim.index, key, item)
                                             THEN "upload" ELSE "remove"],
                       update(rim, key, item))
  /\ UNCHANGED << hostVars, cos, lastCall >>

\* await uploadFileToCOS(filePath, indexItem.path)
TaskUpload ==
  /\ task.pc = "upload"
  /\ \E ok \in BOOLEAN :
       LET key == Targets(task)[task.i]
       IN IF ok
            THEN /\ cos' = Stored(PutArtifact(Store, key, rim.index[key]))
                 /\ GoOn([task EXCEPT !.pc = "remove"], rim)
            ELSE /\ cos' = cos
                 /\ GoOn(PlatformFailed([task EXCEPT !.uploadFailed = @ \cup {key}], rim.index),
                         rim)
  /\ UNCHANGED << hostVars, lastCall >>

\* await fs.remove(filePath)
TaskRemove ==
  /\ task.pc = "remove"
  /\ \E ok \in BOOLEAN :
       IF ok THEN GoOn(PlatformDone(task, rim.index), rim)
             ELSE GoOn(PlatformFailed(task, rim.index), rim)
  /\ UNCHANGED << hostVars, cos, lastCall >>

\* updates += await rim.save(), and the return; runVsixTask pushes the
\* extension to successIds and comes to the next one
TaskSave ==
  /\ task.pc = "save"
  /\ \E uploaded \in BOOLEAN :
       /\ (rim.updates = 0 => uploaded)
       /\ LET saved == [rim EXCEPT !.updates = PendingAfterSave(rim, uploaded)]
              counted == [task EXCEPT !.updates = @ + rim.updates]
          IN /\ cos' = IF rim.updates > 0 /\ uploaded
                         THEN Stored(PutIndex(Store, rim.index)) ELSE cos
             /\ IF task.type = "vsix"
                  THEN IF uploaded
                         THEN GoOn(NextExtension([counted EXCEPT
                                     !.successIds = Append(@, vsixList[task.e])]), saved)
                         ELSE GoOn(ExtensionFailed(task), saved)
                  ELSE IF uploaded THEN GoOn([counted EXCEPT !.pc = "returned"], saved)
                                   ELSE GoOn([task EXCEPT !.pc = "thrown"], saved)
  /\ UNCHANGED << hostVars, lastCall >>

InitTasks ==
  /\ HostIdle
  /\ \E type \in TaskTypes :
       /\ task = Started(type)
       /\ rim = IF type \in {"c_cpp", "vsix"} THEN NewManager(BaseOf(task)) ELSE NoManager
       /\ cos \in Storages(type)
  /\ lastCall = NoCall

NextTasks ==
  \/ TaskFetch
  \/ TaskLoad
  \/ TaskInfo
  \/ TaskEnsureDir
  \/ TaskDownload
  \/ TaskUpload
  \/ TaskRemove
  \/ TaskSave

Tasks == InitTasks /\ [][NextTasks]_vars

\* ------------------------------------------------------------ properties
ValidationErrors == {"EmptyPath", "NotFound", "BadExt"}

\* pick7zBinary has returned
Resolved == pc \notin {"idle", "override", "overrideTry", "dirs", "dirsTry", "path", "builtin"}

\* the checks of the input path have been made
Validated == Resolved /\ pc # "validate"

\* the probe command has returned
Probed == Len(issued) >= 1

Returned == pc = "done" /\ result = "ok"

\* the file at the output path, as the caller of convert sees it
Output == fs["caller"]

\* C1: a probe result that is encrypted, not of the 7z type, invalid looking or
\* with a non-zero exit code ends convert in a failure, with no temporary
\* directory created and no extract command issued.
C1_RejectedProbeAborts ==
  (Probed /\ (pr.isEncrypted \/ ~pr.isType7z \/ pr.looksInvalid \/ pr.exitCode # 0))
    => /\ pc = "done"
       /\ result \in {"Encrypted", "Invalid"}
       /\ tmpRoot = "absent"
       /\ issued = <<"probe">>

\* C1 witness: a probe rejected for its exit code alone
C1_Witness ==
  /\ pc = "done"
  /\ issued = <<"probe">>
  /\ pr.exitCode = 2 /\ pr.isType7z /\ ~pr.looksInvalid /\ ~pr.isEncrypted
  /\ result = "Invalid"

\* C2 (as claimed): once the temporary root has been created, convert ends with
\* it removed, whatever step failed.
C2_TmpRootRemovedOnEveryExit ==
  (pc = "done" /\ tmpRoot # "absent") => tmpRoot = "removed"

\* C3 (as claimed): a call with an empty, missing or wrongly named input fails
\* with no child process started at all.
C3_NoLaunchBeforeValidation ==
  (pc = "done" /\ result \in ValidationErrors) => launches = 0

\* the inputs C3 is about: empty path, nothing at the path, extension not .7z
BadInput ==
  \/ filePath = Absent
  \/ filePath = <<>>
  \/ inputKind = "none"
  \/ ~EndsWith(toLowerCase(filePath), Dot7z)

\* C3 (amended): such a call fails with an input-validation error before any
\* probe, extract, add, delete or verify command is issued; the child
\* processes started before the failure are the resolver's version queries,
\* at least one.
C3_NoCommandBeforeValidation ==
  (Validated /\ BadInput)
    => /\ pc = "done"
       /\ result \in ValidationErrors
       /\ issued = <<>>
       /\ launches = Len(tried)
       /\ launches >= 1

\* C3 witness: an existing file with another extension is rejected after the
\* version queries
C3_Witness ==
  /\ pc = "done"
  /\ result = "BadExt"
  /\ inputKind = "file"
  /\ launches >= 1
  /\ issued = <<>>

\* C4 (as claimed): after a successful convert every file and directory that
\* was extracted is a member of the zip at the output path, files as files
\* and directories as directories.
C4_ExtractedEntriesInZip ==
  Returned => /\ Output.kind = "zip"
              /\ \A nd \in archive : Member(nd) \in Output.members

\* C5 (as claimed, taken at the absolute output paths, where the packer and
\* the caller name the same file): after a successful convert the members of
\* the zip at the output path are exactly the members of the input archive,
\* whatever was at the output path before.
C5_SameEntrySet ==
  (Returned /\ isAbsolute(outZip))
    => /\ Output.kind = "zip"
       /\ Output.members = TreeMembers(archive)

\* C6 (as claimed, taken at the absolute output paths): when nothing was
\* extracted, a successful convert leaves a zip without file members and
\* without the placeholder, whatever the delete command answered.
C6_EmptyArchiveEmptyZip ==
  (Returned /\ archive = {} /\ isAbsolute(outZip))
    => /\ Output.kind = "zip"
       /\ {m \in Output.members : ~m.dir} = {}
       /\ Member(Placeholder) \notin Output.members

\* the existence check has been made: it follows the verification listing
StatDone == pc \in {"cleanup", "done"} /\ Len(issued) >= 1 /\ issued[Len(issued)] = "verify"

\* C7: when convert returns a path a regular file is at that path; when the
\* packing succeeded and no regular file is there, convert fails with the
\* output-missing error.
C7_ReturnedPathIsFile ==
  /\ result = "ok" => isFile(Output)
  /\ (StatDone /\ ~isFile(Output)) => result = "OutputMissing"

\* C7 witness: convert has returned and an archive is at the output path
C7_Witness == Returned /\ Output.kind = "zip"

\* C8 (as claimed): convert returns the output path only when the
\* verification listing exited with 0.
C8_ReturnOnlyIfVerified ==
  result = "ok" => verifyR.exitCode = 0

\* the output path C9 states
ClaimedOutZip(fp, op) ==
  IF Falsy(op) THEN SubSeq(fp, 1, Len(fp) - Len(Dot7z)) \o DotZip
  ELSE IF EndsWith(toLowerCase(op), DotZip) THEN op
  ELSE op \o DotZip

\* C9 (as claimed): the output path is the input path with .7z replaced by
\* .zip when none is given, the given path when it ends in .zip, the given
\* path with .zip appended otherwise; it always ends in .zip.
C9_OutputPath ==
  (Probed /\ ProbeVerdict(pr) = "ok")
    => /\ outZip = ClaimedOutZip(filePath, outputPath)
       /\ EndsWith(toLowerCase(outZip), DotZip)

\* no candidate of any tier answers the version query recognizably
NoCandidateAnswers ==
  /\ env.override.set => ~TryOk(env.override.answer)
  /\ \A c \in DirBins :
       (c.d \in DirsOf(loaded) /\ env.dirs[c].exists) => ~TryOk(env.dirs[c].answer)
  /\ \A c \in PathBins : ~TryOk(env.path[c])
  /\ ~TryOk(env.builtin)

\* C10 (as claimed): when no candidate answers recognizably convert fails with
\* a resolution failure and issues no probe, extract, pack or verify command.
C10_ResolutionFailure ==
  (pc = "done" /\ NoCandidateAnswers) => (result = "ResolutionFailure" /\ issued = <<>>)

\* C10 (amended): when no candidate answers recognizably the resolver still
\* returns the embedded binary and convert goes on: it never ends in a
\* resolution failure, an input that fails validation ends it with no command
\* issued, and for any other input the probe command is issued.
C10_FallbackIsUsed ==
  (Resolved /\ NoCandidateAnswers)
    => /\ sevenZipBin = Builtin7za
       /\ result # "ResolutionFailure"
       /\ (Validated /\ ValidationError(filePath, inputKind) # "none") => issued = <<>>
       /\ (Validated /\ ValidationError(filePath, inputKind) = "none" /\ pc # "probe")
            => (Len(issued) >= 1 /\ issued[1] = "probe")

\* C10 witness: nothing can be started, and the probe has been issued with the
\* embedded binary
C10_Witness ==
  /\ NoCandidateAnswers
  /\ pc = "done"
  /\ sevenZipBin = Builtin7za
  /\ issued = <<"probe">>

\* no candidate of the override, directory and search-path tiers is accepted
NoTierAccepts ==
  /\ env.override.set => ~TryOk(env.override.answer)
  /\ \A c \in DirBins :
       (c.d \in DirsOf(loaded) /\ env.dirs[c].exists) => ~TryOk(env.dirs[c].answer)
  /\ \A c \in PathBins : ~TryOk(env.path[c])

\* C11: when the override, directory and search-path tiers accept nothing, the
\* resolver returns the embedded binary whatever its version query answered
\* (the signature, another text, or no start at all), and the version it
\* returns is the text of that answer, empty when there was none.
C11_FallbackForEveryOutcome ==
  (Resolved /\ NoTierAccepts)
    => /\ sevenZipBin = Builtin7za
       /\ tried[Len(tried)] = Builtin7za
       /\ version = env.builtin.out
       /\ (~env.builtin.launched => version = {})

\* C11 witness: the embedded binary answered with a text that does not name
\* the product, and is returned with that text as its version
C11_Witness ==
  /\ Resolved
  /\ NoTierAccepts
  /\ env.builtin = NoSig
  /\ sevenZipBin = Builtin7za
  /\ version = {"Usage"}

\* the place of a candidate in the order override, directories (names within
\* a directory), search path, embedded binary
RankIn(list, c) ==
  CASE c.tier = "override" -> 0
    [] c.tier = "dir"      -> ((CHOOSE i \in 1..Len(list) : list[i] = c.d) - 1) * MaxNames + c.n
    [] c.tier = "path"     -> Len(list) * MaxNames + c.n
    [] OTHER               -> Len(list) * MaxNames + MaxNames + 1

Rank(c) == RankIn(loaded, c)

\* the candidate is one a resolver that goes through list has to query in e:
\* the override when it is set, a file of a directory of the list when it
\* exists, every name on the search path, the embedded binary
QueriedIn(e, list, c) ==
  CASE c.tier = "override" -> e.override.set
    [] c.tier = "dir"      -> c.d \in DirsOf(list) /\ e.dirs[c].exists
    [] OTHER               -> TRUE

Queried(c) == QueriedIn(env, loaded, c)

\* C12: the candidates are queried in the order override, directories in
\* order with the names in order within each, names on the search path,
\* embedded binary, none of them skipped; every candidate queried before the
\* last one was rejected, so nothing is queried after an accepted candidate;
\* and the resolver returns the last one queried, which is the first whose
\* answer carries the signature, or the embedded binary.
C12_OrderFirstMatchWins ==
  /\ \A i, j \in 1..Len(tried) : i < j => Rank(tried[i]) < Rank(tried[j])
  /\ \A i \in 1..Len(tried) : Queried(tried[i])
  /\ \A i \in 1..(Len(tried) - 1) : ~TryOk(AnswerIn(env, tried[i]))
  /\ \A c \in Candidates :
       (Len(tried) > 0 /\ Queried(c) /\ Rank(c) < Rank(tried[Len(tried)]))
         => \E i \in 1..Len(tried) : tried[i] = c
  /\ Resolved
       => /\ Len(tried) > 0
          /\ sevenZipBin = tried[Len(tried)]
          /\ version = AnswerIn(env, sevenZipBin).out
          /\ sevenZipBin # Builtin7za => TryOk(AnswerIn(env, sevenZipBin))

\* C12 witness: the override, the second name in the directory
\* CONVERT_7Z_BIN_DIR names, the first name in bin and the first name in
\* vendors were queried in that order and rejected, the missing files were
\* not queried, and the second name on the search path was accepted
C12_Witness ==
  /\ Resolved
  /\ loaded = <<"A", CwdBin, CwdVendors>>
  /\ sevenZipBin = PathBin(2)
  /\ tried = << OverrideBin, DirBin("A", 2), DirBin(CwdBin, 1), DirBin(CwdVendors, 1),
                PathBin(1), PathBin(2) >>

\* C13: a second call made in the environment the first call was made in,
\* nothing changed in between, gets the binary and the version output the
\* first call got.
C13_SameEnvironmentSamePick ==
  (call = 2 /\ Resolved /\ ~first.changed)
    => /\ sevenZipBin = first.bin
       /\ version = first.version

\* C13 witness: both calls were given the same file of a candidate directory
\* after the override was rejected
C13_Witness ==
  /\ call = 2
  /\ Resolved
  /\ ~first.changed
  /\ env.override.set
  /\ first.bin.tier = "dir"
  /\ sevenZipBin = first.bin
  /\ version = {"7-Zip"}

\* what a resolver started in e, its module loaded in e, selects: the first
\* candidate in the order whose answer carries the signature, the embedded
\* binary when there is none
FreshPick(e) ==
  LET list == CANDIDATE_DIRS(e.binDir)
      acc == { c \in Candidates \ {Builtin7za} :
                 QueriedIn(e, list, c) /\ TryOk(AnswerIn(e, c)) }
  IN IF acc = {} THEN Builtin7za
     ELSE CHOOSE c \in acc : \A x \in acc : RankIn(list, c) <= RankIn(list, x)

\* C14 (as claimed): whatever was changed between two calls (CONVERT_7Z_BIN,
\* CONVERT_7Z_BIN_DIR, a candidate file), the second call gets the binary and
\* the version output a resolver started in the new environment selects; a
\* file it returns from a directory is in a directory the new environment
\* lists.
C14_SecondCallAsFresh ==
  (call = 2 /\ Resolved)
    => /\ sevenZipBin = FreshPick(env)
       /\ version = AnswerIn(env, FreshPick(env)).out
       /\ sevenZipBin.tier = "dir" => sevenZipBin.d \in DirsOf(CANDIDATE_DIRS(env.binDir))

\* C15: a listing that contains "Enter password" is classified as encrypted,
\* with the exit code 0, with a non-zero exit code, and whatever else the
\* listing contains.
C15_EnterPasswordIsEncrypted ==
  (Probed /\ "Enter password" \in listed.all) => pr.isEncrypted

\* C15 witness: the listing command exited with 0, its text the password
\* prompt and the type line, and the probe result is encrypted
C15_Witness ==
  /\ Probed
  /\ listed = [exitCode |-> 0, all |-> {"Type = 7z", "Enter password"}]
  /\ pr.isEncrypted

\* C16: a probe result that is encrypted ends convert with the
\* encrypted-archive error also when it looks invalid, is not of the 7z type
\* or has a non-zero exit code; the invalid-archive error is raised only for
\* probe results that are not encrypted.
C16_EncryptedBeforeInvalid ==
  Probed => /\ pr.isEncrypted => (pc = "done" /\ result = "Encrypted")
            /\ result = "Invalid" => ~pr.isEncrypted

\* C16 witness: a probe result that is encrypted, invalid looking, not of the
\* 7z type and with a non-zero exit code, ended with the encrypted error
C16_Witness ==
  /\ Probed
  /\ pr.isEncrypted
  /\ pr.looksInvalid
  /\ ~pr.isType7z
  /\ pr.exitCode = 2
  /\ result = "Encrypted"

\* the summary of the tool reports an error count or a warning count above 0
NonZeroCount(all) == "Errors: 1" \in all \/ "Warnings: 1" \in all

\* C17 (as claimed): looksInvalid is set exactly when the text contains the
\* "Can not open file as archive" message, or the exit code is not 0 and the
\* summary reports an error or warning count above 0; a non-zero exit code
\* with zero counts alone does not set it.
C17_LooksInvalidExactly ==
  Probed =>
    (pr.looksInvalid <=>
       \/ "Can not open file as archive" \in listed.all
       \/ (listed.exitCode # 0 /\ NonZeroCount(listed.all)))

\* the elements of a sequence
Range(q) == { q[i] : i \in 1..Len(q) }

\* the result of an add command is a failure that carries the invalid-argument,
\* unsupported-switch or incorrect-command-line signature
BadArgsFailure(r) ==
  /\ r.exitCode # 0
  /\ \E f \in {"E_INVALIDARG", "Unsupported switch", "Incorrect command line"} : f \in r.all

\* C18: when the first add command fails with the invalid-argument,
\* unsupported-switch or incorrect-command-line signature a second one is
\* issued; the second has the container, compression and thread-count
\* switches of the first, its archive path and its entries in their order,
\* and the first differs from it by the three timestamp switches alone.
C18_SecondAttemptKeepsFlags ==
  /\ (Len(packLog) = 1 /\ BadArgsFailure(packR)) => pc = "pack2"
  /\ Len(packLog) >= 2
       => /\ packLog[1].flags = packLog[2].flags \o <<"-mtm=on", "-mtc=on", "-mta=on">>
          /\ {"-tzip", "-mx=7", "-mmt=N"} \subseteq Range(packLog[2].flags)
          /\ Range(packLog[2].flags) \cap {"-mtm=on", "-mtc=on", "-mta=on"} = {}
          /\ packLog[2].outZip = packLog[1].outZip
          /\ packLog[2].entries = packLog[1].entries

\* C18 witness: a second add command has been issued for several entries
C18_Witness ==
  /\ Len(packLog) = 2
  /\ packLog[1].exitCode = 2
  /\ Len(packLog[2].entries) >= 2

\* the result of an add command is a failure whose text has the
\* unsupported-switch message and the multi-thread switch
MmtFailure(r) ==
  /\ r.exitCode # 0
  /\ "Unsupported switch" \in r.all
  /\ "-mmt" \in r.all

\* one step of convert, as C19 constrains it
C19_Step ==
  \* the third add command is issued: the second had been, and had failed with
  \* the signature; the third has neither the multi-thread nor the timestamp
  \* switches and has the maximum compression
  /\ (Len(packLog') = 3 /\ Len(packLog) # 3)
       => /\ Len(packLog) = 2
          /\ "-mmt=N" \in Range(packLog[2].flags)
          /\ Range(packLog[2].flags) \cap {"-mtm=on", "-mtc=on", "-mta=on"} = {}
          /\ packLog[2].exitCode # 0
          /\ MmtFailure(packR)
          /\ packLog'[3].flags = <<"a", "-tzip", "-mx=9">>
          /\ packLog'[3].outZip = packLog[2].outZip
          /\ packLog'[3].entries = packLog[2].entries
  \* the second add command returns: the third is next exactly for the signature
  /\ (Len(packLog') = 2 /\ Len(packLog) = 1)
       => (pc' = "pack3" <=> MmtFailure([exitCode |-> packLog'[2].exitCode, all |-> packR'.all]))
  \* the first add command returns: the third is never next
  /\ (Len(packLog') = 1 /\ Len(packLog) = 0) => pc' # "pack3"

\* C19: the third add command (no multi-thread switch, no timestamp switches,
\* -mx=9) is issued exactly after a second add command that failed with an
\* unsupported-switch message and the multi-thread switch in its text: never
\* right after the first, never after another failure of the second.
C19_ThirdAttemptOnlyAfterSecond == [][C19_Step]_vars

\* C19 witness: three add commands were issued, the last with -mx=9 alone
C19_Witness ==
  /\ Len(packLog) = 3
  /\ packLog[2].exitCode = 2
  /\ packLog[3].flags = <<"a", "-tzip", "-mx=9">>

\* the argument tier of a logged add command, read from its switches
TierOf(cmd) ==
  IF "-mtm=on" \in Range(cmd.flags) THEN 1
  ELSE IF "-mmt=N" \in Range(cmd.flags) THEN 2
  ELSE 3

\* C20: the add commands of a pack call are those of the tiers 1, 2, 3 in that
\* order, each at most once, so at most three; each but the first follows a
\* failed one, and none follows one that exited with 0.
C20_TiersOnceInOrder ==
  /\ Len(packLog) <= 3
  /\ \A i \in 1..Len(packLog) : TierOf(packLog[i]) = i
  /\ \A i \in 1..(Len(packLog) - 1) : packLog[i].exitCode # 0
  /\ Cardinality({ i \in 1..Len(issued) : issued[i] = "add" }) = Len(packLog)
  /\ pc \in {"pack2", "pack3"} => packLog[Len(packLog)].exitCode # 0

\* C20 witness: convert returned after three add commands, the last of which
\* exited with 0
C20_Witness ==
  /\ Returned
  /\ Len(packLog) = 3
  /\ packLog[3].exitCode = 0

\* addZipWith7z has returned or thrown
PackEnded == Len(packLog) >= 1 /\ pc \notin {"pack1", "pack2", "pack3"}

\* C21: pack ends without an error exactly when the last add command it
\* issued exited with 0; otherwise convert fails with the packing failure,
\* which carries the exit code and the text of that last command, and
\* nothing of the pipeline but the cleanup follows.  A second command is
\* pending only after a first failure with a compatibility signature: a first
\* failure without one ends pack with the failure at once.
C21_PackOutcome ==
  /\ PackEnded => (result = "PackFailed" <=> packLog[Len(packLog)].exitCode # 0)
  /\ result = "PackFailed"
       => /\ PackEnded
          /\ pc \in {"cleanup", "done"}
          /\ packR.exitCode = packLog[Len(packLog)].exitCode
          /\ issued[Len(issued)] = "add"
  /\ pc = "pack2" => (Len(packLog) = 1 /\ BadArgsFailure(packR))
  /\ (PackEnded /\ Len(packLog) = 1 /\ packLog[1].exitCode # 0)
       => (result = "PackFailed" /\ ~BadArgsFailure(packR))

\* C21 witness: the third add command failed too and convert ended with the
\* packing failure that carries its exit code and text
C21_Witness ==
  /\ pc = "done"
  /\ result = "PackFailed"
  /\ Len(packLog) = 3
  /\ packR = [exitCode |-> 2, all |-> {"Unsupported switch", "-mmt"}]

\* extractWith7z has returned or thrown
ExtractEnded == \E i \in 1..Len(issued) : issued[i] = "extract"

\* C22: an extract command that exits with 0 raises nothing; one that exits
\* non-zero ends convert with the remediation error exactly when its text has
\* E_FAIL and the version output of the resolved binary names p7zip 16.02,
\* with the generic extraction error in every other case.
C22_ExtractErrors ==
  ExtractEnded
    => /\ extractR.exitCode = 0 => result \notin {"ExtractP7zip16", "ExtractFailed"}
       /\ extractR.exitCode # 0
            => /\ pc \in {"cleanup", "done"}
               /\ result \in {"ExtractP7zip16", "ExtractFailed"}
               /\ result = "ExtractP7zip16"
                    <=> (extractR.efail /\ "p7zip Version 16.02" \in version)

\* C22 witness: E_FAIL from a binary that is not p7zip 16.02 ended in the
\* generic error
C22_Witness ==
  /\ ExtractEnded
  /\ extractR = [exitCode |-> 2, efail |-> TRUE]
  /\ version = {"7-Zip"}
  /\ result = "ExtractFailed"

\* C23: the standalone tool exits with 1 exactly when the input argument is
\* missing, and then no conversion was started; with 2 exactly when convert
\* failed, the error being the last thing written to the error stream; with
\* 0 exactly when convert succeeded; and with nothing else.
C23_ExitCodes ==
  /\ pc = "exited" <=> exitStatus # Undef
  /\ pc = "exited"
       => /\ exitStatus \in {0, 1, 2}
          /\ exitStatus = 1 <=> Falsy(filePath)
          /\ exitStatus = 1
               => (result = "none" /\ launches = 0 /\ tried = <<>> /\ issued = <<>>)
          /\ exitStatus = 2 <=> result \notin {"none", "ok"}
          /\ exitStatus = 2 => (stderr # <<>> /\ stderr[Len(stderr)] = result)
          /\ exitStatus = 0 <=> result = "ok"
          /\ exitStatus = 0 => stderr = <<>>

\* C23 witness: the tool ended with 2 after a conversion that failed when its
\* output was missing
C23_Witness ==
  /\ pc = "exited"
  /\ exitStatus = 2
  /\ result = "OutputMissing"

\* C24: in every interleaving of concurrent convert calls, two calls that
\* hold a temporary root hold different ones; what a call lists and packs
\* was extracted by no other call; and the cleanup of a call removes the
\* root of no other call.
C24_PrivateRoots ==
  \A i \in Invocations :
    /\ \A j \in Invocations \ {i} :
         (Holds(i) /\ Holds(j)) => inv[i].tmpRoot # inv[j].tmpRoot
    /\ Holds(i) => /\ tmpFs[inv[i].tmpRoot].exists
                   /\ tmpFs[inv[i].tmpRoot].writers \subseteq {i}
    /\ inv[i].saw \subseteq {i}
    /\ inv[i].removed \subseteq {i}

\* C24 witness: one call has removed its root while another, which extracted
\* in between, still holds its own
C24_Witness ==
  \E i \in Invocations, j \in Invocations :
    /\ i # j
    /\ inv[i].pc = "done"
    /\ inv[i].removed = {i}
    /\ inv[i].saw = {i}
    /\ inv[j].pc = "add"
    /\ inv[j].saw = {j}
    /\ tmpFs[inv[j].tmpRoot].writers = {j}

\* the step of convert a position belongs to: 1 binary resolved, 2 input
\* validated, 3 probed and output path computed, 4 temporary workspace
\* created, 5 extracted, 6 entries listed, 7 packed, 8 verified, 9 cleanup,
\* 10 done
StepOf(p) ==
  CASE p = "idle" -> 0
    [] p \in {"override", "overrideTry", "dirs", "dirsTry", "path", "builtin"} -> 1
    [] p = "validate" -> 2
    [] p = "probe" -> 3
    [] p \in {"mkdtemp", "mkdir"} -> 4
    [] p = "extract" -> 5
    [] p = "list" -> 6
    [] p \in {"placeholder", "pack1", "pack2", "pack3", "delete"} -> 7
    [] p \in {"verify", "stat"} -> 8
    [] p = "cleanup" -> 9
    [] OTHER -> 10

\* the number of commands named c that were started
Count(c) == Cardinality({i \in 1..Len(issued) : issued[i] = c})

\* the place of a command in the order of the steps
CommandRank(c) ==
  CASE c = "probe" -> 1
    [] c = "extract" -> 2
    [] c = "add" -> 3
    [] c = "delete" -> 4
    [] OTHER -> 5

C25_Step ==
  \* no step is entered again once left, and none runs before an earlier one
  /\ StepOf(pc') >= StepOf(pc)
  \* while nothing has failed the next step is the one that follows
  /\ result' = "none" => StepOf(pc') <= StepOf(pc) + 1
  \* an error ends the pipeline: what is left is the cleanup
  /\ result' \notin {"none", "ok"} => pc' \in {"cleanup", "done"}
  /\ pc = "cleanup" => pc' = "done"
  \* the commands of the probe, extract and verify steps are started once,
  \* in this order around the add commands
  /\ Count("probe")' <= 1 /\ Count("extract")' <= 1 /\ Count("verify")' <= 1
  /\ \A i \in 1..Len(issued'), j \in 1..Len(issued') :
       (i < j) => (CommandRank(issued'[i]) <= CommandRank(issued'[j]))
  \* the output path is computed with the probe's result at hand
  /\ outZip' # <<>> => pr' # NoProbe

\* C25: in every execution of convert the steps run at most once each and in
\* the order binary resolved, input validated, probed, output path computed,
\* temporary workspace created, extracted, entries listed, packed, verified,
\* done; no step runs after a later one, and after a failed step only the
\* cleanup runs.
C25_StepsInOrder == [][C25_Step]_vars

\* C25 witness: a call that went through every step and returned
C25_Witness ==
  /\ pc = "done"
  /\ result = "ok"
  /\ issued[1] = "probe"
  /\ issued[2] = "extract"
  /\ issued[Len(issued)] = "verify"
  /\ tmpRoot = "removed"

\* listAllRelativeEntries has returned
ListEnded == pc \in {"pack1", "placeholder"}

\* C26: the list has exactly one entry for every file and every directory of
\* the tree, none for the root and none for anything else; the entry of a
\* directory, and of nothing else, ends with the separator; and the entry of
\* a directory comes before the entries of everything beneath it.
C26_EveryNodeOnceParentsFirst ==
  ListEnded
    => /\ \A nd \in workTree : Cardinality({i \in 1..Len(entries) : entries[i].rel = nd}) = 1
       /\ \A i \in 1..Len(entries) :
            /\ entries[i].rel \in workTree
            /\ entries[i].rel # <<>>
            /\ entries[i].slash <=> entries[i].rel \in DirNodes \cup DeepDirNodes
       /\ \A i \in 1..Len(entries), j \in 1..Len(entries) :
            (i # j /\ IsPrefix(entries[i].rel, entries[j].rel)) => i < j

\* C26 witness: the list of a tree three levels deep with an empty directory
\* beside it
C26_Witness ==
  /\ ListEnded
  /\ workTree = { <<"a">>, <<"a", "d">>, <<"a", "d", "e.txt">>, <<"c">>, <<"f">> }
  /\ entries = << Entry(<<"a">>, TRUE), Entry(<<"a", "d">>, TRUE),
                  Entry(<<"a", "d", "e.txt">>, FALSE), Entry(<<"c">>, TRUE),
                  Entry(<<"f">>, FALSE) >>

\* the resolver raised nothing and, once it has returned, returned a binary
ResolverNeverFails ==
  /\ (~Resolved \/ pc = "validate") => result = "none"
  /\ Resolved => sevenZipBin # NoBin

\* C27 as stated: no error ends the resolution, and a candidate whose
\* permissions could not be changed is passed over like one that cannot be
\* launched: it is never the binary returned.
C27_ChmodFailureIsFailedCandidate ==
  /\ ResolverNeverFails
  /\ (Resolved /\ chmod = "failed") => sevenZipBin # tried[Len(tried)]

\* C27: no error ends the resolution; a candidate that cannot be launched, or
\* that does not answer as the product, is passed over (the embedded fallback
\* alone is returned whatever it answers); a failed chmod changes nothing:
\* the candidate is queried all the same and returned when its answer is
\* recognized.
C27_UnlaunchablePassedOverChmodIgnored ==
  /\ ResolverNeverFails
  /\ \A i \in 1..Len(tried) :
       (~AnswerIn(env, tried[i]).launched /\ tried[i] # Builtin7za)
         => /\ sevenZipBin # tried[i]
            /\ i = Len(tried) => ~Resolved
  /\ Len(tried) > 0
       => LET c == tried[Len(tried)]
              accepted == AnswerIn(env, c).launched /\ Matches(RxProduct, AnswerIn(env, c).out)
          IN /\ (c # Builtin7za /\ ~accepted) => (~Resolved /\ sevenZipBin = NoBin)
             /\ (c # Builtin7za /\ accepted) => (Resolved /\ sevenZipBin = c)
             /\ c = Builtin7za => (Resolved /\ sevenZipBin = c)
             /\ chmod # "none" <=> c.tier \in {"override", "dir"}

\* C27 witness: the override could not be launched, the next candidate was
\* returned although its chmod failed
C27_Witness ==
  /\ Resolved
  /\ Len(tried) = 2
  /\ tried[1] = OverrideBin
  /\ ~AnswerIn(env, tried[1]).launched
  /\ tried[2].tier = "dir"
  /\ chmod = "failed"
  /\ sevenZipBin = tried[2]

\* addZipWith7z returned: its last add command exited with 0
PackSucceeded == PackEnded /\ packLog[Len(packLog)].exitCode = 0

\* C28 (as claimed): for every output path the file the add command wrote,
\* run in the working directory, is the file the delete command, the
\* verification and the existence check name in the caller's directory; a
\* pack that succeeded is never followed by the output-missing error.
C28_PackedFileIsCheckedFile ==
  PackSucceeded
    => /\ Resolve(packLog[Len(packLog)].outZip, "work") = Resolve(outZip, "caller")
       /\ result # "OutputMissing"

\* C29 (as claimed): the index in the storage has an entry only for a
\* platform whose artifact was uploaded, in this run of the task or before
\* it; a platform whose artifact upload failed has, in the stored index, the
\* entry it had when the task loaded the index, or none.
C29_IndexOnlyOfUploadedArtifacts ==
  task.type \in PlatformTasks
    => LET store == cos[task.type]
       IN /\ \A k \in Keys :
               store.index[k] # NoItem => Artifact(k, store.index[k]) \in store.artifacts
          /\ \A k \in task.uploadFailed : store.index[k] = task.before[k]

\* C30: on a loaded manager, save uploads the index exactly when an entry was
\* replaced since the last save that uploaded; after the upload it returns
\* the number of entries replaced since then, the pending count is 0 and the
\* storage holds the manager's index; with nothing pending it uploads
\* nothing and returns 0; when the upload fails it throws and the pending
\* count is what it was, so that it is not 0.
C30_SaveUploadsPending ==
  /\ rim.updates = lastCall.since
  /\ (lastCall.name = "save" /\ rim.loaded)
       => /\ lastCall.upload # "none" <=> lastCall.sinceBefore > 0
          /\ lastCall.upload = "ok"
               => /\ ~lastCall.threw
                  /\ lastCall.ret = lastCall.sinceBefore
                  /\ rim.updates = 0
                  /\ Store.exists /\ Store.index = rim.index
          /\ lastCall.upload = "none"
               => /\ ~lastCall.threw
                  /\ lastCall.ret = 0
                  /\ rim.updates = 0
          /\ lastCall.upload = "failed"
               => /\ lastCall.threw
                  /\ rim.updates = lastCall.pending
                  /\ rim.updates > 0

\* C30 witness: a save whose upload failed with two updates pending
C30_Witness ==
  /\ lastCall.name = "save"
  /\ lastCall.upload = "failed"
  /\ lastCall.sinceBefore = 2
  /\ rim.updates = 2

\* the last call was an update on a loaded manager
UpdateReturned == lastCall.name = "update" /\ ~lastCall.threw

\* the state after an update: what it returned and what it left, told from
\* its arguments and the index it found
C31_AfterUpdate ==
  UpdateReturned
    => LET key == lastCall.key
           data == lastCall.data
           stored == lastCall.before[key]
           differs == \/ stored = NoItem
                      \/ stored.version # data.version
                      \/ stored.md5 # data.md5
       IN /\ lastCall.ret = differs
          /\ \A k \in Keys \ {key} : rim.index[k] = lastCall.before[k]
          /\ differs => (rim.index[key] = data /\ rim.updates = lastCall.pending + 1)
          /\ ~differs => (rim.index = lastCall.before /\ rim.updates = lastCall.pending)

C31_Step ==
  /\ C31_AfterUpdate'
  \* the same update made again at once returns false and changes nothing
  /\ ( /\ UpdateReturned
       /\ UpdateReturned'
       /\ lastCall'.key = lastCall.key
       /\ lastCall'.data = lastCall.data )
       => (lastCall'.ret = FALSE /\ rim' = rim)

\* C31: update(key, data) replaces the entry, adds one to the pending count
\* and returns true exactly when the key is absent or its stored version or
\* md5 differs from data; otherwise it returns false and leaves the index
\* and the count as they were; the same update repeated at once returns
\* false and changes nothing.
C31_UpdateExactlyOnDifference == [][C31_Step]_vars

\* C31 witness: an update that found the same version under another md5
\* replaced the entry
C31_Witness ==
  /\ UpdateReturned
  /\ lastCall.ret = TRUE
  /\ lastCall.before[lastCall.key] # NoItem
  /\ lastCall.before[lastCall.key].version = lastCall.data.version
  /\ lastCall.before[lastCall.key].md5 # lastCall.data.md5
  /\ rim.index[lastCall.key] = lastCall.data
  /\ rim.updates = 2

ManagerMethods == {"get", "hasUpdate", "update", "save"}

C32_Step ==
  \* the manager is loaded from the first load that returns, and not before
  /\ rim'.loaded = (rim.loaded \/ (lastCall'.name = "load" /\ ~lastCall'.threw))
  \* a method called before that throws, uploads nothing and changes nothing
  /\ (~rim.loaded /\ lastCall'.name \in ManagerMethods)
       => /\ lastCall'.threw
          /\ lastCall'.ret = Thrown
          /\ lastCall'.upload = "none"
          /\ rim' = rim
          /\ cos' = cos
  \* a load that threw leaves the manager as it was
  /\ (lastCall'.name = "load" /\ lastCall'.threw) => rim' = rim
  \* a load that found no index leaves the empty map
  /\ (lastCall'.name = "load" /\ ~lastCall'.threw /\ ~Store.exists)
       => (rim'.index = EmptyIndex /\ lastCall'.ret = EmptyIndex)
  \* on a loaded manager the methods do not throw, save apart when its upload
  \* was rejected
  /\ (rim.loaded /\ lastCall'.name \in ManagerMethods)
       => (lastCall'.threw <=> (lastCall'.name = "save" /\ lastCall'.upload = "failed"))

\* C32: on a manager whose load has not returned, get, hasUpdate, update and
\* save each throw, upload nothing and leave the index and the pending count
\* as they were; after a load that finds no index in the storage the index
\* is the empty map and the four methods work.
C32_MethodsNeedLoadedIndex == [][C32_Step]_vars

\* C32 witness: an update called before any load returned has thrown, and the
\* manager is still the one the constructor left
C32_Witness ==
  /\ lastCall.name = "update"
  /\ lastCall.threw
  /\ lastCall.upload = "none"
  /\ rim = NewManager("python")
  /\ Store.exists

\* how many times a platform stands in a list
Occurrences(list, k) == Cardinality({j \in 1..Len(list) : list[j] = k})

\* C33: when a platform task returns, every target platform stands exactly
\* once in successPlatforms and failedPlatforms taken together, the
\* platforms skipped as already up to date included.
C33_EveryPlatformInOneList ==
  (task.type \in PlatformTasks /\ task.pc = "returned")
    => \A j \in 1..Len(Targets(task)) :
         Occurrences(task.successPlatforms, Targets(task)[j])
           + Occurrences(task.failedPlatforms, Targets(task)[j]) = 1

\* a list put together from two trees: it names a/b.txt, removed during the
\* walk, and c/g, written during it
MixedListing ==
  /\ ListEnded
  /\ workTree = { <<"a">>, <<"c">>, <<"c", "g">>, <<"f">> }
  /\ entries = << Entry(<<"a">>, TRUE), Entry(<<"a", "b.txt">>, FALSE), Entry(<<"c">>, TRUE),
                  Entry(<<"c", "g">>, FALSE), Entry(<<"f">>, FALSE) >>

====
